---------------------------- MODULE Spec2Model ----------------------------
(***************************************************************************)
(* A model of the storm toolkit: the migration advisory lock               *)
(* (internal/storm/migrator.go), the transaction scopes                    *)
(* (pkg/storm-orm/storm.go and the TransactionManager), and the middleware *)
(* pipeline around the terminal operations of Query.                       *)
(*                                                                         *)
(* Each subsystem has its own variables and its own specification; a       *)
(* specification leaves the variables of the other subsystems unchanged.   *)
(***************************************************************************)
EXTENDS Integers, Sequences, FiniteSets, TLC

(***************************************************************************)
(* Bounds of the model.                                                    *)
(***************************************************************************)
\* concurrent AutoMigrate callers sharing one *sqlx.DB
NumCallers == 2
\* connections (database sessions) of the shared pool
NumConns == 2
\* cap on the re-entrant hold count of one session
MaxHold == 2

\* WithTransaction / WithTransactionOptions calls in one behaviour
MaxCalls == 2
\* statements one callback sends to its executor
MaxStmts == 1
\* middlewares added to one repository
MaxMW == 3
\* repositories derived with Authorize from one base repository
MaxAuth == 3
\* statements of one migration's up script
MaxUp == 2
\* changes of one computed migration plan
MaxPlan == 2
\* the conditions added to one query
MaxWhere == 2
\* the actions handed to one Query.Update
MaxActions == 2
\* the joins added to one query
MaxJoins == 1
\* the largest limit and offset
MaxLimit == 2
\* the ORDER BY expressions of one query
MaxOrder == 1
\* the rows of the queried table
NumRows == 3
\* the characters of one string of a StringArray
MaxStrLen == 2
\* the strings of one StringArray
MaxArrLen == 2
\* the operations applied to one JSON field
MaxOps == 2
\* the pieces an up script is put together from
MaxTokens == 4
\* the foreign key columns of one table
MaxFK == 1

Callers == 1..NumCallers
Conns == 1..NumConns
TxIds == 1..MaxCalls

VARIABLES
    \* ---- migration advisory lock ----
    lpc,        \* caller -> where the call is
    lkind,      \* caller -> "migrator" (MigratorImpl.AutoMigrate) | "storm" (Storm.runMigration)
    lconn,      \* caller -> pool connection its pending lock statement runs on (0: none)
    holds,      \* connection -> times its session holds advisory lock 8675309
    ctxDone,    \* caller -> the caller's ctx is cancelled
    acquired,   \* caller -> acquireAdvisoryLock returned nil in this call
    lresult,    \* caller -> how the call ended
    ddlRan,     \* caller -> the call has started to push DDL
    \* ---- transaction scopes ----
    logger,     \* the Storm was built with a QueryLogger
    txState,    \* transaction -> "Idle" | "Active" | "Committed" | "RolledBack"
    calls,      \* every WithTransaction call made so far, in call order
    stack,      \* the calls in progress, innermost last
    txLog,      \* begin / exec / commit / rollback as they reach a transaction
    txCtxDone,  \* the ctx of the outermost call is cancelled
    unwinding,  \* the panic value travelling up the stack ("none": no panic)
    \* ---- middleware pipeline and terminal query operations ----
    mws,        \* the repository's middlewares, in the order they were added
    last,       \* the terminal operation that ran last: what it sent and returned
    \* ---- authorization chains ----
    arrays,     \* backing array -> the AuthorizeFunc values stored in it
    repos,      \* the repositories made so far: slice header, parent, added function
    lastQuery,  \* the Repository.Query call made last: the calls it made, its result
    \* ---- MigratorImpl.Apply ----
    up,         \* the statements of the migration's up script, as split
    history,    \* who wrote the history rows of the migration's name ("pre": an earlier run)
    effects,    \* committed effects of the migration's statements: [by, idx]
    apc,        \* applier -> where its Apply call is
    aidx,       \* applier -> the statement executeMigration looks at next
    asent,      \* applier -> the statements it sent to its transaction, with their outcome
    arow,       \* applier -> its transaction holds an uncommitted history row
    atx,        \* applier -> state of its transaction
    asaw,       \* applier -> what isMigrationApplied answered
    ares,       \* applier -> what Apply returned
    \* ---- plan generation and auto-migration ----
    gpc,        \* where the auto-migration call is
    gopts,      \* the MigrationOptions it runs with, and the entry point
    gctxDone,   \* the caller's ctx is cancelled
    temp,       \* the temporary database exists on the server
    tempMade,   \* the call created a temporary database
    plan,       \* the changes the diff computed
    written,    \* the changes applied to the target database
    gres,       \* what the call returned (or the error / panic on its way out)
    \* ---- the query builder ----
    qwhere,     \* Query.whereClause: the conditions, in the order added
    qjoins,     \* Query.joins
    qorder,     \* Query.orderBy
    qlimit,     \* Query.limit (a pointer: set or nil)
    qoffset,    \* Query.offset
    qout,       \* what the last terminal operation on this builder produced
    qerr,       \* Query.err: the accumulated builder error, "" for nil
    \* ---- the string array ----
    saOrig,     \* the StringArray that was stored
    wire,       \* the driver value Value produced for it
    sa,         \* the StringArray Scan filled
    sapc,       \* where the round trip is
    \* ---- the JSON field ----
    jfield,     \* the JSONData: its Data pointer and its Valid flag
    jlog,       \* the operations applied to it, with the error of each
    \* ---- the up script as text ----
    script,     \* Migration.UpSQL, the text of the up script
    stmts,      \* what splitSQLStatements returned for it
    sent,       \* the statements executeMigration handed to the transaction
    spc,        \* where the run over the script is
    \* ---- the schema's tables ----
    fks,        \* DatabaseSchema.Tables: for each table the tables its foreign key columns reference, in column order
    tablesIn,   \* the names handed to sortTablesByDependencies
    tablesOut,  \* the names it returned
    sortpc,     \* where the call is
    \* ---- has_many relationship loading ----
    parentRows, \* the parent table, the ids of its rows in the order a SELECT yields them
    childRows,  \* the child table, child row -> its foreign key value
    records,    \* what findWithRelationships has in hand, one record per parent
    relpc,      \* "new", "seeded", "found"
    \* ---- repositories and their middleware managers ----
    rmgr,       \* repository -> the repository it was derived from (0: none) and its middlewareManager pointer
    mgrList,    \* middlewareManager -> its middlewares, in the order they were added
    lastOp      \* the operation issued last: through which repository, the middlewares it ran

lockVars == <<lpc, lkind, lconn, holds, ctxDone, acquired, lresult, ddlRan>>
txVars == <<logger, txState, calls, stack, txLog, txCtxDone, unwinding>>

mwVars == <<mws, last>>

authVars == <<arrays, repos, lastQuery>>

applyVars == <<up, history, effects, apc, aidx, asent, arow, atx, asaw, ares>>

genVars == <<gpc, gopts, gctxDone, temp, tempMade, plan, written, gres>>

queryVars == <<qwhere, qjoins, qorder, qlimit, qoffset, qout, qerr>>

arrVars == <<saOrig, wire, sa, sapc>>

jsonVars == <<jfield, jlog>>

splitVars == <<script, stmts, sent, spc>>

sortVars == <<fks, tablesIn, tablesOut, sortpc>>

relVars == <<parentRows, childRows, records, relpc>>

mgrVars == <<rmgr, mgrList, lastOp>>

vars == <<lockVars, txVars, mwVars, authVars, applyVars, genVars, queryVars, arrVars, jsonVars, splitVars, sortVars, relVars, mgrVars>>

\* what the actions of one subsystem leave alone
notLock == <<txVars, mwVars, authVars, applyVars, genVars, queryVars, arrVars, jsonVars, splitVars, sortVars, relVars, mgrVars>>
notTx == <<lockVars, mwVars, authVars, applyVars, genVars, queryVars, arrVars, jsonVars, splitVars, sortVars, relVars, mgrVars>>
notMW == <<lockVars, txVars, authVars, applyVars, genVars, queryVars, arrVars, jsonVars, splitVars, sortVars, relVars, mgrVars>>
notAuth == <<lockVars, txVars, mwVars, applyVars, genVars, queryVars, arrVars, jsonVars, splitVars, sortVars, relVars, mgrVars>>
notApply == <<lockVars, txVars, mwVars, authVars, genVars, queryVars, arrVars, jsonVars, splitVars, sortVars, relVars, mgrVars>>
notGen == <<lockVars, txVars, mwVars, authVars, applyVars, queryVars, arrVars, jsonVars, splitVars, sortVars, relVars, mgrVars>>
notQuery == <<lockVars, txVars, mwVars, authVars, applyVars, genVars, arrVars, jsonVars, splitVars, sortVars, relVars, mgrVars>>
notArr == <<lockVars, txVars, mwVars, authVars, applyVars, genVars, queryVars, jsonVars, splitVars, sortVars, relVars, mgrVars>>
notJson == <<lockVars, txVars, mwVars, authVars, applyVars, genVars, queryVars, arrVars, splitVars, sortVars, relVars, mgrVars>>
notSplit == <<lockVars, txVars, mwVars, authVars, applyVars, genVars, queryVars, arrVars, jsonVars, sortVars, relVars, mgrVars>>
notSort == <<lockVars, txVars, mwVars, authVars, applyVars, genVars, queryVars, arrVars, jsonVars, splitVars, relVars, mgrVars>>
notRel == <<lockVars, txVars, mwVars, authVars, applyVars, genVars, queryVars, arrVars, jsonVars, splitVars, sortVars, mgrVars>>
notMgr == <<lockVars, txVars, mwVars, authVars, applyVars, genVars, queryVars, arrVars, jsonVars, splitVars, sortVars, relVars>>

(***************************************************************************)
(* The migration advisory lock.                                            *)
(*                                                                         *)
(* m.db is a connection pool: every m.db.ExecContext runs on whichever     *)
(* connection of the pool is free at that moment.  pg_advisory_lock is     *)
(* held by the session (the connection) that ran it and is re-entrant in   *)
(* that session; pg_advisory_unlock releases one hold of the session it    *)
(* runs on and does nothing in a session that holds none.                  *)
(***************************************************************************)

\* connections on which a lock statement is still waiting
BusyConns == {lconn[p] : p \in {q \in Callers : lpc[q] = "waiting"}}

\* the lock is free for session c: no other session holds it
LockFreeFor(c) == \A d \in Conns \ {c} : holds[d] = 0

LockStart ==
    /\ lpc = [p \in Callers |-> "idle"]
    /\ lkind = [p \in Callers |-> "migrator"]
    /\ lconn = [p \in Callers |-> 0]
    /\ holds = [c \in Conns |-> 0]
    /\ ctxDone = [p \in Callers |-> FALSE]
    /\ acquired = [p \in Callers |-> FALSE]
    /\ lresult = [p \in Callers |-> "none"]
    /\ ddlRan = [p \in Callers |-> FALSE]

\* MigratorImpl.AutoMigrate is entered: lockCtx is opened, the lock statement is next
AutoMigrate(p) ==
    /\ lpc[p] = "idle"
    /\ lpc' = [lpc EXCEPT ![p] = "acquire"]
    /\ lkind' = [lkind EXCEPT ![p] = "migrator"]
    /\ ctxDone' = [ctxDone EXCEPT ![p] = FALSE]
    /\ acquired' = [acquired EXCEPT ![p] = FALSE]
    /\ lresult' = [lresult EXCEPT ![p] = "none"]
    /\ ddlRan' = [ddlRan EXCEPT ![p] = FALSE]
    /\ UNCHANGED <<lconn, holds>>
    /\ UNCHANGED notLock

\* Storm.AutoMigrate / runMigration: no lock statement, straight to GenerateMigration
runMigration(p) ==
    /\ lpc[p] = "idle"
    /\ lpc' = [lpc EXCEPT ![p] = "generate"]
    /\ lkind' = [lkind EXCEPT ![p] = "storm"]
    /\ ctxDone' = [ctxDone EXCEPT ![p] = FALSE]
    /\ acquired' = [acquired EXCEPT ![p] = FALSE]
    /\ lresult' = [lresult EXCEPT ![p] = "none"]
    /\ ddlRan' = [ddlRan EXCEPT ![p] = FALSE]
    /\ UNCHANGED <<lconn, holds>>
    /\ UNCHANGED notLock

\* acquireAdvisoryLock: m.db.ExecContext takes a free connection of the pool
\* and sends SELECT pg_advisory_lock($1) on it
acquireAdvisoryLock(p, c) ==
    /\ lpc[p] = "acquire"
    /\ c \notin BusyConns
    /\ lpc' = [lpc EXCEPT ![p] = "waiting"]
    /\ lconn' = [lconn EXCEPT ![p] = c]
    /\ UNCHANGED <<lkind, holds, ctxDone, acquired, lresult, ddlRan>>
    /\ UNCHANGED notLock

\* the server grants the lock to the session of the pending statement; the
\* connection goes back to the pool with the session still holding the lock
LockGranted(p) ==
    /\ lpc[p] = "waiting"
    /\ LockFreeFor(lconn[p])
    /\ holds[lconn[p]] < MaxHold
    /\ holds' = [holds EXCEPT ![lconn[p]] = @ + 1]
    /\ acquired' = [acquired EXCEPT ![p] = TRUE]
    /\ lconn' = [lconn EXCEPT ![p] = 0]
    /\ lpc' = [lpc EXCEPT ![p] = "generate"]
    /\ UNCHANGED <<lkind, ctxDone, lresult, ddlRan>>
    /\ UNCHANGED notLock

\* the mutant: the call goes on without the lock
AfterAcquireError_proceeds == "generate"

\* "if err := m.acquireAdvisoryLock(lockCtx, lockID); err != nil { return ... }"
AfterAcquireError == "done"

\* lockCtx expires while the statement waits: "failed to acquire migration lock"
LockTimeout(p) ==
    /\ lpc[p] = "waiting"
    /\ ~LockFreeFor(lconn[p])
    /\ lconn' = [lconn EXCEPT ![p] = 0]
    /\ lpc' = [lpc EXCEPT ![p] = AfterAcquireError]
    /\ lresult' = [lresult EXCEPT ![p] = "lockerr"]
    /\ UNCHANGED <<lkind, holds, ctxDone, acquired, ddlRan>>
    /\ UNCHANGED notLock

\* the caller's ctx is cancelled while the call runs
CancelCtx(p) ==
    /\ lpc[p] \in {"generate", "ddl"}
    /\ ~ctxDone[p]
    /\ ctxDone' = [ctxDone EXCEPT ![p] = TRUE]
    /\ UNCHANGED <<lpc, lkind, lconn, holds, acquired, lresult, ddlRan>>
    /\ UNCHANGED notLock

\* where a call goes when GenerateMigration has returned or panicked: the
\* deferred releaseAdvisoryLock of MigratorImpl.AutoMigrate, or the exit
AfterGenerate(p) == IF lkind[p] = "migrator" THEN "release" ELSE "done"

\* GenerateMigration has computed the plan and starts to push its DDL
BeginDDL(p) ==
    /\ lpc[p] = "generate"
    /\ ~ctxDone[p]
    /\ lpc' = [lpc EXCEPT ![p] = "ddl"]
    /\ ddlRan' = [ddlRan EXCEPT ![p] = TRUE]
    /\ UNCHANGED <<lkind, lconn, holds, ctxDone, acquired, lresult>>
    /\ UNCHANGED notLock

\* GenerateMigration returns: nil, an error (always so once ctx is cancelled)
\* or a panic
EndGenerate(p, r) ==
    /\ lpc[p] \in {"generate", "ddl"}
    /\ r \in {"ok", "err", "panic"}
    /\ ctxDone[p] => r # "ok"
    /\ lpc' = [lpc EXCEPT ![p] = AfterGenerate(p)]
    /\ lresult' = [lresult EXCEPT ![p] = r]
    /\ UNCHANGED <<lkind, lconn, holds, ctxDone, acquired, ddlRan>>
    /\ UNCHANGED notLock

\* what SELECT pg_advisory_unlock($1) does to the holds when it runs on session c
Unlock(c) == IF holds[c] > 0 THEN [holds EXCEPT ![c] = @ - 1] ELSE holds

\* the deferred releaseAdvisoryLock(ctx, lockID): m.db.ExecContext with the
\* caller's ctx, on a free connection of the pool; the error is dropped
releaseAdvisoryLock(p, c) ==
    /\ lpc[p] = "release"
    /\ c \notin BusyConns
    /\ holds' = IF ctxDone[p] THEN holds ELSE Unlock(c)
    /\ lpc' = [lpc EXCEPT ![p] = "done"]
    /\ UNCHANGED <<lkind, lconn, ctxDone, acquired, lresult, ddlRan>>
    /\ UNCHANGED notLock

\* the caller has its result and forgets the call; it may call again
CallReturns(p) ==
    /\ lpc[p] = "done"
    /\ lpc' = [lpc EXCEPT ![p] = "idle"]
    /\ lkind' = [lkind EXCEPT ![p] = "migrator"]
    /\ ctxDone' = [ctxDone EXCEPT ![p] = FALSE]
    /\ acquired' = [acquired EXCEPT ![p] = FALSE]
    /\ lresult' = [lresult EXCEPT ![p] = "none"]
    /\ ddlRan' = [ddlRan EXCEPT ![p] = FALSE]
    /\ UNCHANGED <<lconn, holds>>
    /\ UNCHANGED notLock

LockNext ==
    \E p \in Callers :
        \/ AutoMigrate(p)
        \/ runMigration(p)
        \/ \E c \in Conns : acquireAdvisoryLock(p, c)
        \/ LockGranted(p)
        \/ LockTimeout(p)
        \/ CancelCtx(p)
        \/ BeginDDL(p)
        \/ \E r \in {"ok", "err", "panic"} : EndGenerate(p, r)
        \/ \E c \in Conns : releaseAdvisoryLock(p, c)
        \/ CallReturns(p)


(***************************************************************************)
(* Transaction scopes: Storm.WithTransaction, Storm.WithTransactionOptions *)
(* and TransactionManager.WithTransactionOptions.                          *)
(*                                                                         *)
(* One goroutine makes one outermost call and, from its callbacks, the     *)
(* calls nested in it.  A call is followed through its                     *)
(* blocking points: BeginTxx, the callback fn, tx.Commit and the deferred  *)
(* function.  sql.Tx finishes once: Commit and Rollback of a finished      *)
(* transaction return ErrTxDone and change nothing, and a transaction      *)
(* whose ctx is cancelled is rolled back by the database/sql watcher.      *)
(***************************************************************************)

None == [kind |-> "none", val |-> "-"]
Nil == [kind |-> "nil", val |-> "-"]
Err(e) == [kind |-> "err", val |-> e]
Panic(v) == [kind |-> "panic", val |-> v]

\* what a callback can return or panic with
InnerErrs == {"e1", "e2"}
PanicVals == {"p1", "p2"}
FnResults == {Nil} \cup {Err(e) : e \in InnerErrs}

StormAPIs == {"WithTransaction", "WithTransactionOptions"}
APIs == StormAPIs \cup {"TransactionManager"}

\* an executor: the pool or a transaction, wrapped in a loggingExecutor or not
DBExecutor(wrapped) == [wrap |-> wrapped, base |-> "db", tx |-> 0]
TxExecutor(wrapped, t) == [wrap |-> wrapped, base |-> "tx", tx |-> t]

\* NewStorm(db, logger...): the executor of the root Storm
NewStorm == DBExecutor(logger)

\* newStormWithExecutor(db, tx, s.logger): the executor of the Storm handed to fn
newStormWithExecutor(t) == TxExecutor(logger, t)

\* the mutant: only the unwrapped *sqlx.Tx is recognised
isInTransaction_unwrappedOnly(ex) == ~ex.wrap /\ ex.base = "tx"

\* Storm.isInTransaction: the executor is a *sqlx.Tx, or a loggingExecutor around one
isInTransaction(ex) ==
    \/ (~ex.wrap /\ ex.base = "tx")
    \/ (ex.wrap /\ ex.base = "tx")

TxTerminal == {"Committed", "RolledBack"}

\* tx.Rollback(): rolls an active transaction back; ErrTxDone otherwise
TxRollback(st) == IF st = "Active" THEN "RolledBack" ELSE st

\* the mutant: the deferred function does not roll back
DeferredRollback_missing(committed, st) == st

\* the deferred function of a call that began a transaction:
\* if !committed { tx.Rollback() } (the TransactionManager recovers first,
\* rolls back and panics again)
DeferredRollback(committed, st) == IF ~committed THEN TxRollback(st) ELSE st

\* the mutant: commit is attempted whatever fn returned
AfterFn_alwaysCommit(r) == "commit"

\* after fn(txStorm): "if err := fn(txStorm); err != nil { return err }",
\* else tx.Commit(); a panic goes straight to the deferred function
AfterFn(r) == IF r.kind = "nil" THEN "commit" ELSE "defer"

Top == stack[Len(stack)]
InFn == stack # << >> /\ calls[Top].pc = "fn" /\ unwinding = "none"

\* the Storm (its executor) a new call is made on: the root Storm, or the
\* Storm the running callback was handed
Receiver == IF stack = << >> THEN NewStorm ELSE calls[Top].scope

\* transactions begun so far
Begun == {t \in TxIds : txState[t] # "Idle"}

LogEntry(op, t, c, was) == [op |-> op, tx |-> t, call |-> c, was |-> was, n |-> 0]

\* the log with one more entry (n tells the statements of one callback apart)
Logged(e) == txLog \cup {[e EXCEPT !.n = Cardinality({x \in txLog : x.op = e.op /\ x.call = e.call})]}

TxStart ==
    /\ logger \in BOOLEAN
    /\ txState = [t \in TxIds |-> "Idle"]
    /\ calls = << >>
    /\ stack = << >>
    /\ txLog = {}
    /\ txCtxDone = FALSE
    /\ unwinding = "none"

\* a call on a Storm that is in a transaction: fn(s) runs directly
CallNested(api) ==
    /\ api \in StormAPIs
    /\ Len(calls) < MaxCalls
    /\ InFn
    /\ calls[Top].api \in StormAPIs
    /\ isInTransaction(Receiver)
    /\ calls' = Append(calls, [api |-> api, recv |-> Receiver, scope |-> Receiver,
                                own |-> 0, committed |-> FALSE, pc |-> "fn",
                                fnRes |-> None, ret |-> None])
    /\ stack' = Append(stack, Len(calls) + 1)
    /\ UNCHANGED <<logger, txState, txLog, txCtxDone, unwinding>>
    /\ UNCHANGED notTx

\* a call on a Storm that is not in a transaction (or on a TransactionManager):
\* db.BeginTxx(ctx, opts) succeeds and fn is handed the transaction's scope
CallBegin(api) ==
    /\ api \in APIs
    /\ Len(calls) < MaxCalls
    /\ \/ calls = << >>
       \/ InFn /\ api \in StormAPIs /\ calls[Top].api \in StormAPIs
    /\ api \in StormAPIs => ~isInTransaction(Receiver)
    /\ stack # << >> => ~txCtxDone
    /\ LET t == Cardinality(Begun) + 1
           c == Len(calls) + 1
       IN /\ txState' = [txState EXCEPT ![t] = "Active"]
          /\ txLog' = Logged(LogEntry("begin", t, c, "Idle"))
          /\ calls' = Append(calls, [api |-> api, recv |-> Receiver,
                                     scope |-> IF api \in StormAPIs
                                               THEN newStormWithExecutor(t)
                                               ELSE TxExecutor(FALSE, t),
                                     own |-> t, committed |-> FALSE, pc |-> "fn",
                                     fnRes |-> None, ret |-> None])
          /\ stack' = Append(stack, c)
    /\ txCtxDone' = txCtxDone
    /\ UNCHANGED <<logger, unwinding>>
    /\ UNCHANGED notTx

\* db.BeginTxx fails: "failed to begin transaction", fn is not called
CallBeginFails(api) ==
    /\ api \in APIs
    /\ Len(calls) < MaxCalls
    /\ \/ calls = << >>
       \/ InFn /\ api \in StormAPIs /\ calls[Top].api \in StormAPIs
    /\ api \in StormAPIs => ~isInTransaction(Receiver)
    /\ calls' = Append(calls, [api |-> api, recv |-> Receiver, scope |-> Receiver,
                                own |-> 0, committed |-> FALSE, pc |-> "returned",
                                fnRes |-> None, ret |-> Err("begin")])
    /\ UNCHANGED <<logger, txState, stack, txLog, txCtxDone, unwinding>>
    /\ UNCHANGED notTx

\* the callback sends a statement to the executor of its scope
ExecStmt ==
    /\ InFn
    /\ LET c == Top
           t == calls[c].scope.tx
       IN /\ txState[t] = "Active"
          /\ Cardinality({e \in txLog : e.op = "exec" /\ e.call = c}) < MaxStmts
          /\ txLog' = Logged(LogEntry("exec", t, c, txState[t]))
    /\ UNCHANGED <<logger, txState, calls, stack, txCtxDone, unwinding>>
    /\ UNCHANGED notTx

\* the frame below the top one, which a finished call returns into
Pop == SubSeq(stack, 1, Len(stack) - 1)

\* the callback ends with r: returns nil or an error, or panics (its own
\* panic, or the one a nested call let through)
FnEnds(r) ==
    /\ stack # << >>
    /\ calls[Top].pc = "fn"
    /\ IF unwinding = "none"
       THEN r \in FnResults \cup {Panic(v) : v \in PanicVals}
       ELSE r = Panic(unwinding)
    /\ LET c == Top
       IN IF calls[c].own = 0
          THEN \* fn(s) ran directly: "return fn(s)"
               /\ calls' = [calls EXCEPT ![c].fnRes = r, ![c].ret = r, ![c].pc = "returned"]
               /\ stack' = Pop
               /\ unwinding' = IF r.kind = "panic" /\ Pop # << >> THEN r.val ELSE "none"
          ELSE /\ calls' = [calls EXCEPT ![c].fnRes = r, ![c].ret = r, ![c].pc = AfterFn(r)]
               /\ stack' = stack
               /\ unwinding' = "none"
    /\ UNCHANGED <<logger, txState, txLog, txCtxDone>>
    /\ UNCHANGED notTx

\* tx.Commit(): ctx.Err() when the ctx is cancelled, ErrTxDone when the
\* transaction is finished; else the driver commits, or fails and the
\* transaction ends uncommitted
Commit(ok) ==
    /\ stack # << >>
    /\ calls[Top].pc = "commit"
    /\ LET c == Top
           t == calls[c].own
           can == ~txCtxDone /\ txState[t] = "Active"
       IN /\ ok => can
          /\ txLog' = Logged(LogEntry("commit", t, c, txState[t]))
          /\ txState' = IF can
                        THEN [txState EXCEPT ![t] = IF ok THEN "Committed" ELSE "RolledBack"]
                        ELSE txState
          /\ calls' = [calls EXCEPT ![c].committed = ok,
                                    ![c].ret = IF ok THEN Nil ELSE Err("commit"),
                                    ![c].pc = "defer"]
    /\ UNCHANGED <<logger, stack, txCtxDone, unwinding>>
    /\ UNCHANGED notTx

\* the deferred function runs and the call returns (or panics on)
Deferred ==
    /\ stack # << >>
    /\ calls[Top].pc = "defer"
    /\ LET c == Top
           t == calls[c].own
       IN /\ txLog' = IF calls[c].committed THEN txLog
                      ELSE Logged(LogEntry("rollback", t, c, txState[t]))
          /\ txState' = [txState EXCEPT ![t] = DeferredRollback(calls[c].committed, @)]
          /\ calls' = [calls EXCEPT ![c].pc = "returned"]
          /\ stack' = Pop
          /\ unwinding' = IF calls[c].ret.kind = "panic" /\ Pop # << >>
                          THEN calls[c].ret.val ELSE "none"
    /\ UNCHANGED <<logger, txCtxDone>>
    /\ UNCHANGED notTx

\* the ctx of the outermost call is cancelled
TxCancelCtx ==
    /\ stack # << >>
    /\ ~txCtxDone
    /\ txCtxDone' = TRUE
    /\ UNCHANGED <<logger, txState, calls, stack, txLog, unwinding>>
    /\ UNCHANGED notTx

\* database/sql rolls back a transaction whose ctx is cancelled
AwaitDone(t) ==
    /\ txCtxDone
    /\ txState[t] = "Active"
    /\ txState' = [txState EXCEPT ![t] = "RolledBack"]
    /\ txLog' = Logged(LogEntry("awaitDone", t, 0, "Active"))
    /\ UNCHANGED <<logger, calls, stack, txCtxDone, unwinding>>
    /\ UNCHANGED notTx

TxNext ==
    \/ \E api \in APIs : CallNested(api)
    \/ \E api \in APIs : CallBegin(api)
    \/ \E api \in APIs : CallBeginFails(api)
    \/ ExecStmt
    \/ \E r \in FnResults \cup {Panic(v) : v \in PanicVals} : FnEnds(r)
    \/ \E ok \in BOOLEAN : Commit(ok)
    \/ Deferred
    \/ TxCancelCtx
    \/ \E t \in TxIds : AwaitDone(t)

(***************************************************************************)
(* The middleware pipeline and the terminal operations of Query[T].        *)
(*                                                                         *)
(* A terminal operation runs to its end in one step; the driver's answer   *)
(* (d: "ok" | "fail", rows: the query returned a record) is its input.     *)
(* A middleware is one of four bodies: "log" (pre-block, next, post-block  *)
(* that sees next's error), "deny" (returns an error without calling       *)
(* next), "blockDelete" (returns an error on OpDelete, else next) and      *)
(* "softDelete" (filters OpQuery by deleted_at, turns OpDelete into an     *)
(* UPDATE, then next).                                                     *)
(***************************************************************************)
MWKinds == {"log", "deny", "blockDelete", "softDelete"}

\* a query builder value: squirrel.SelectBuilder / DeleteBuilder /
\* UpdateBuilder, or a plain SQL string
Builder(kind) == [kind |-> kind, softFilter |-> FALSE]

MiddlewareContext(operation, builder) == [operation |-> operation, builder |-> builder]

\* a statement as the driver receives it
Stmt(verb, softFilter) == [verb |-> verb, softFilter |-> softFilter]

\* one thing that happened in a pipeline run
Event(ev, i, saw) == [ev |-> ev, i |-> i, saw |-> saw]

\* the middleware returns an error instead of calling next
Blocks(kind, ctx) ==
    \/ kind = "deny"
    \/ kind = "blockDelete" /\ ctx.operation = "Delete"

\* what the middleware does to the context before it calls next
Rewrite(kind, ctx) ==
    IF kind # "softDelete" THEN ctx
    ELSE IF ctx.operation = "Query" /\ ctx.builder.kind = "select"
         THEN [ctx EXCEPT !.builder.softFilter = TRUE]
    ELSE IF ctx.operation = "Delete"
         THEN MiddlewareContext("Update", Builder("update"))
    ELSE ctx

\* the final function of a terminal operation: the driver call.
\* Find, Count and Delete assert the builder's type without checking,
\* Update and the relationship loader send the SQL they were built with
Final(op, ctx, d) ==
    LET res == IF d = "ok" THEN Nil ELSE Err(op)
        typed(kind, verb) ==
            IF ctx.builder.kind = kind
            THEN [sent |-> <<Stmt(verb, ctx.builder.softFilter)>>, res |-> res]
            ELSE [sent |-> << >>, res |-> Panic("interface conversion")]
    IN CASE op \in {"find", "count"} -> typed("select", "SELECT")
         [] op = "delete" -> typed("delete", "DELETE")
         [] op = "update" -> [sent |-> <<Stmt("UPDATE", FALSE)>>, res |-> res]
         [] op = "load_relationship" -> [sent |-> <<Stmt("SELECT", FALSE)>>, res |-> res]

\* the mutant: the first-added middleware is wrapped innermost
Wrapping_reversed(n) == [k \in 1..n |-> n + 1 - k]

\* the order the chain is entered in: the first-added middleware is
\* outermost, the last-added one is next to the final function
Wrapping(n) == [k \in 1..n |-> k]

\* the chain from its k-th middleware inwards, run on ctx: what happened, what
\* reached the driver and what the k-th handler returned (or panicked with)
RECURSIVE Chain(_, _, _, _, _)
Chain(order, k, ctx, op, d) ==
    IF k > Len(order)
    THEN LET f == Final(op, ctx, d)
         IN [events |-> IF f.sent = << >> THEN << >> ELSE <<Event("driver", 0, f.res)>>,
             sent |-> f.sent, res |-> f.res]
    ELSE LET i == order[k]
             kind == mws[i]
         IN IF Blocks(kind, ctx)
            THEN [events |-> <<Event("pre", i, None), Event("abort", i, Err("denied"))>>,
                  sent |-> << >>, res |-> Err("denied")]
            ELSE LET inner == Chain(order, k + 1, Rewrite(kind, ctx), op, d)
                 IN [events |-> <<Event("pre", i, None)>> \o inner.events \o
                                IF kind = "log" /\ inner.res.kind # "panic"
                                THEN <<Event("post", i, inner.res)>> ELSE << >>,
                     sent |-> inner.sent, res |-> inner.res]

\* middlewareManager.ExecuteMiddleware(ctx, final)
ExecuteMiddleware(ctx, op, d) == Chain(Wrapping(Len(mws)), 1, ctx, op, d)

\* Repository.executeQueryMiddleware(operation, ctx, model, builder, final)
executeQueryMiddleware(operation, builder, op, d) ==
    ExecuteMiddleware(MiddlewareContext(operation, builder), op, d)

\* the record of one terminal operation: the middlewares it ran with, the
\* driver's answer, its pipeline runs, the statements it sent to the driver
\* outside any run, and what it returned
Done(op, d, runs, direct, ret) ==
    [op |-> op, with |-> mws, d |-> d, runs |-> runs, direct |-> direct, ret |-> ret]

\* Query.Find, with findWithRelationships and loadRelationship (one include)
FindResult(incl, rows, d, d2) ==
    LET main == executeQueryMiddleware("Query", Builder("select"), "find", d)
        rel == executeQueryMiddleware("Query", Builder("raw"), "load_relationship", d2)
    IN IF incl /\ main.res = Nil /\ rows
       THEN [runs |-> <<main, rel>>,
             ret |-> IF rel.res.kind = "err" THEN Err("failed to load relationship") ELSE rel.res]
       ELSE [runs |-> <<main>>, ret |-> main.res]

\* Query.Count
CountResult(d) == executeQueryMiddleware("Query", Builder("select"), "count", d)

MWStart ==
    /\ mws = << >>
    /\ last = Done("none", "ok", << >>, << >>, None)

\* Repository.AddMiddleware(m): appends to the manager's list
AddMiddleware(kind) ==
    /\ Len(mws) < MaxMW
    /\ mws' = Append(mws, kind)
    /\ UNCHANGED last
    /\ UNCHANGED notMW

Find(incl, rows, d, d2) ==
    /\ LET r == FindResult(incl, rows, d, d2)
       IN last' = Done("Find", d, r.runs, << >>, r.ret)
    /\ UNCHANGED mws
    /\ UNCHANGED notMW

\* q.Limit(1), Find(), ErrNotFound when no record came back
First(incl, rows, d, d2) ==
    /\ LET r == FindResult(incl, rows, d, d2)
       IN last' = Done("First", d, r.runs, << >>,
                       IF r.ret = Nil /\ ~rows THEN Err("not found") ELSE r.ret)
    /\ UNCHANGED mws
    /\ UNCHANGED notMW

Count(d) ==
    /\ LET run == CountResult(d)
       IN last' = Done("Count", d, <<run>>, << >>, run.res)
    /\ UNCHANGED mws
    /\ UNCHANGED notMW

\* Count() and count > 0
Exists(d) ==
    /\ LET run == CountResult(d)
       IN last' = Done("Exists", d, <<run>>, << >>, run.res)
    /\ UNCHANGED mws
    /\ UNCHANGED notMW

Delete(d) ==
    /\ LET run == executeQueryMiddleware("Delete", Builder("delete"), "delete", d)
       IN last' = Done("Delete", d, <<run>>, << >>, run.res)
    /\ UNCHANGED mws
    /\ UNCHANGED notMW

\* Update(actions...): "no actions provided" before anything else; the
\* statement is built first and handed to the pipeline as a string
Update(hasActions, d) ==
    /\ IF ~hasActions
       THEN last' = Done("Update", d, << >>, << >>, Err("no actions provided"))
       ELSE LET run == executeQueryMiddleware("UpdateMany", Builder("raw"), "update", d)
            IN last' = Done("Update", d, <<run>>, << >>, run.res)
    /\ UNCHANGED mws
    /\ UNCHANGED notMW

\* ExecuteRaw(query, args...): SelectContext on the executor
ExecuteRaw(d) ==
    /\ last' = Done("ExecuteRaw", d, << >>, <<Stmt("SELECT", FALSE)>>,
                    IF d = "ok" THEN Nil ELSE Err("executeRaw"))
    /\ UNCHANGED mws
    /\ UNCHANGED notMW

DriverAnswers == {"ok", "fail"}

MWNext ==
    \/ \E kind \in MWKinds : AddMiddleware(kind)
    \/ \E incl, rows \in BOOLEAN : \E d, d2 \in DriverAnswers : Find(incl, rows, d, d2)
    \/ \E incl, rows \in BOOLEAN : \E d, d2 \in DriverAnswers : First(incl, rows, d, d2)
    \/ \E d \in DriverAnswers : Count(d)
    \/ \E d \in DriverAnswers : Exists(d)
    \/ \E d \in DriverAnswers : Delete(d)
    \/ \E hasActions \in BOOLEAN : \E d \in DriverAnswers : Update(hasActions, d)
    \/ \E d \in DriverAnswers : ExecuteRaw(d)

(***************************************************************************)
(* Authorization chains: Repository.Authorize and Repository.Query.        *)
(*                                                                         *)
(* authorizeFuncs is a Go slice: a backing array and a length.  Two        *)
(* repositories whose slices share a backing array see each other's        *)
(* writes.  An AuthorizeFunc is one of: "same" (returns the query it got), *)
(* "where" (adds its condition to the query and returns it), "fresh"       *)
(* (returns another Query object) and "nil" (calling it panics).           *)
(***************************************************************************)
AuthKinds == {"same", "where", "fresh", "nil"}

\* the authorizeFuncs of repository r, read through its slice header
AuthList(r) == SubSeq(arrays[repos[r].arr], 1, repos[r].len)

\* the mutant: the new slice is cut from the receiver's backing array
MakeSlice_shared(r) == repos[r].arr

\* make([]AuthorizeFunc[T], len(r.authorizeFuncs)+1): a backing array of its own
MakeSlice(r) == Len(repos) + 1

\* a Query object: its identity and the conditions put on it so far
QueryObj(obj, conds) == [obj |-> obj, conds |-> conds]

\* what authFunc(ctx, query) returns
CallAuth(fn, query) ==
    CASE fn.kind = "same" -> query
      [] fn.kind = "where" -> [query EXCEPT !.conds = Append(@, fn.id)]
      [] fn.kind = "fresh" -> QueryObj(fn.id, <<fn.id>>)

\* the mutant: the loop drops what the function returned
NextQuery_dropped(got, gave) == got

\* query = authFunc(ctx, query)
NextQuery(got, gave) == gave

\* for _, authFunc := range r.authorizeFuncs { query = authFunc(ctx, query) }:
\* the calls made so far and the current query; a nil function panics
RECURSIVE AuthLoop(_, _, _, _)
AuthLoop(funcs, k, query, made) ==
    IF k > Len(funcs) THEN [made |-> made, out |-> query, res |-> Nil]
    ELSE IF funcs[k].kind = "nil"
         THEN [made |-> made, out |-> query, res |-> Panic("nil func")]
    ELSE LET gave == CallAuth(funcs[k], query)
         IN AuthLoop(funcs, k + 1, NextQuery(query, gave),
                     Append(made, [fn |-> funcs[k], got |-> query, gave |-> gave]))

AuthStart ==
    /\ arrays = [a \in 1..(MaxAuth + 1) |-> << >>]
    /\ repos = <<[arr |-> 1, len |-> 0, parent |-> 0, fn |-> [id |-> 0, kind |-> "same"]]>>
    /\ lastQuery = [repo |-> 0, funcs |-> << >>, made |-> << >>,
                    out |-> QueryObj(0, << >>), res |-> None]

\* r.Authorize(fn): copy the list into the new slice, put fn last, return a
\* new Repository around it
Authorize(r, kind) ==
    /\ r \in DOMAIN repos
    /\ Len(repos) <= MaxAuth
    /\ LET a == MakeSlice(r)
           fn == [id |-> Len(repos) + 1, kind |-> kind]
       IN /\ arrays' = [arrays EXCEPT ![a] = Append(AuthList(r), fn)]
          /\ repos' = Append(repos, [arr |-> a, len |-> repos[r].len + 1,
                                     parent |-> r, fn |-> fn])
    /\ UNCHANGED lastQuery
    /\ UNCHANGED notAuth

\* r.Query(ctx)
Query(r) ==
    /\ r \in DOMAIN repos
    /\ LET run == AuthLoop(AuthList(r), 1, QueryObj(0, << >>), << >>)
       IN lastQuery' = [repo |-> r, funcs |-> AuthList(r), made |-> run.made,
                        out |-> run.out, res |-> run.res]
    /\ UNCHANGED <<arrays, repos>>
    /\ UNCHANGED notAuth

AuthNext ==
    \/ \E r \in 1..(MaxAuth + 1) : \E kind \in AuthKinds : Authorize(r, kind)
    \/ \E r \in 1..(MaxAuth + 1) : Query(r)

(***************************************************************************)
(* MigratorImpl.Apply: two callers apply the same migration to the same    *)
(* database.  The history table has the migration's name as primary key:   *)
(* an insert of a name that is there fails, and an insert of a name that   *)
(* another open transaction has inserted waits for that transaction.       *)
(* DDL is transactional: a rolled back transaction leaves nothing.         *)
(***************************************************************************)
Appliers == {"a1", "a2"}

\* a statement of the script: schema-changing, or a CREATE DATABASE (skipped)
StmtKinds == {"ddl", "createdb"}

RECURSIVE SeqsUpTo(_, _)
SeqsUpTo(S, n) ==
    IF n = 0 THEN {<< >>}
    ELSE LET shorter == SeqsUpTo(S, n - 1)
         IN shorter \cup {Append(q, x) : q \in shorter, x \in S}

\* the mutant: the check's answer is ignored
AfterCheck_never(applied) == "begin"

\* "if applied { return nil }", else BeginTxx
AfterCheck(applied) == IF applied THEN "done" ELSE "begin"

\* the mutant: the deferred function never rolls back
ApplyRollback_missing(armed, st) == st

\* defer func() { if rollback != nil { rollback() } }()
ApplyRollback(armed, st) == IF armed THEN TxRollback(st) ELSE st

ApplyStart ==
    /\ up \in SeqsUpTo(StmtKinds, MaxUp)
    /\ history \in {{}, {"pre"}}
    /\ effects = {}
    /\ apc = [p \in Appliers |-> "idle"]
    /\ aidx = [p \in Appliers |-> 1]
    /\ asent = [p \in Appliers |-> << >>]
    /\ arow = [p \in Appliers |-> FALSE]
    /\ atx = [p \in Appliers |-> "Idle"]
    /\ asaw = [p \in Appliers |-> "none"]
    /\ ares = [p \in Appliers |-> None]

\* the call ends with r before it has a transaction
ApplyReturns(p, r) ==
    /\ apc' = [apc EXCEPT ![p] = "done"]
    /\ ares' = [ares EXCEPT ![p] = r]

\* Apply, up to createMigrationsTable (CREATE TABLE IF NOT EXISTS, on the pool)
Apply(p, d) ==
    /\ apc[p] = "idle"
    /\ IF d = "ok"
       THEN apc' = [apc EXCEPT ![p] = "check"] /\ ares' = ares
       ELSE ApplyReturns(p, Err("failed to create migrations table"))
    /\ UNCHANGED <<up, history, effects, aidx, asent, arow, atx, asaw>>
    /\ UNCHANGED notApply

\* SELECT COUNT(*) ... WHERE name = $1 on the pool: committed rows only
isMigrationApplied(p, d) ==
    /\ apc[p] = "check"
    /\ IF d # "ok"
       THEN /\ ApplyReturns(p, Err("failed to check migration status"))
            /\ asaw' = asaw
       ELSE LET applied == history # {}
            IN /\ asaw' = [asaw EXCEPT ![p] = IF applied THEN "applied" ELSE "pending"]
               /\ apc' = [apc EXCEPT ![p] = AfterCheck(applied)]
               /\ ares' = [ares EXCEPT ![p] = IF AfterCheck(applied) = "done" THEN Nil ELSE @]
    /\ UNCHANGED <<up, history, effects, aidx, asent, arow, atx>>
    /\ UNCHANGED notApply

\* m.db.BeginTxx(ctx, nil)
ApplyBeginTx(p, d) ==
    /\ apc[p] = "begin"
    /\ IF d = "ok"
       THEN /\ atx' = [atx EXCEPT ![p] = "Active"]
            /\ apc' = [apc EXCEPT ![p] = "exec"]
            /\ ares' = ares
       ELSE /\ ApplyReturns(p, Err("failed to begin transaction"))
            /\ atx' = atx
    /\ UNCHANGED <<up, history, effects, aidx, asent, arow, asaw>>
    /\ UNCHANGED notApply

\* executeMigration, one statement of the loop: a CREATE DATABASE is skipped,
\* any other statement goes to tx.ExecContext; the first error ends the loop
executeMigration(p, d) ==
    /\ apc[p] = "exec"
    /\ aidx[p] <= Len(up)
    /\ LET i == aidx[p]
       IN IF up[i] = "createdb"
          THEN /\ d = "ok"
               /\ aidx' = [aidx EXCEPT ![p] = i + 1]
               /\ UNCHANGED <<asent, apc, ares>>
          ELSE /\ asent' = [asent EXCEPT ![p] = Append(@, [idx |-> i, ok |-> d = "ok"])]
               /\ IF d = "ok"
                  THEN /\ aidx' = [aidx EXCEPT ![p] = i + 1]
                       /\ UNCHANGED <<apc, ares>>
                  ELSE /\ apc' = [apc EXCEPT ![p] = "defer"]
                       /\ ares' = [ares EXCEPT ![p] = Err("failed to execute migration")]
                       /\ aidx' = aidx
    /\ UNCHANGED <<up, history, effects, arow, atx, asaw>>
    /\ UNCHANGED notApply

\* the mutant: the name column is no key, any insert is accepted
InsertAccepted_noKey(rows) == TRUE

\* name VARCHAR(255) PRIMARY KEY: an insert of the name is accepted only
\* when no committed row has it
InsertAccepted(rows) == rows = {}

\* recordMigration: INSERT INTO the history table inside the transaction
recordMigration(p, d) ==
    /\ apc[p] = "exec"
    /\ aidx[p] > Len(up)
    /\ \A q \in Appliers \ {p} : ~(arow[q] /\ atx[q] = "Active")
    /\ d = "ok" => InsertAccepted(history)
    /\ IF d = "ok"
       THEN /\ arow' = [arow EXCEPT ![p] = TRUE]
            /\ apc' = [apc EXCEPT ![p] = "commit"]
            /\ ares' = ares
       ELSE /\ apc' = [apc EXCEPT ![p] = "defer"]
            /\ ares' = [ares EXCEPT ![p] = Err("failed to record migration")]
            /\ arow' = arow
    /\ UNCHANGED <<up, history, effects, aidx, asent, atx, asaw>>
    /\ UNCHANGED notApply

\* tx.Commit(), then rollback = nil
ApplyCommit(p, ok) ==
    /\ apc[p] = "commit"
    /\ IF ok
       THEN /\ atx' = [atx EXCEPT ![p] = "Committed"]
            /\ effects' = effects \cup {[by |-> p, idx |-> asent[p][k].idx] : k \in DOMAIN asent[p]}
            /\ history' = history \cup {p}
            /\ ApplyReturns(p, Nil)
       ELSE /\ atx' = [atx EXCEPT ![p] = "RolledBack"]
            /\ apc' = [apc EXCEPT ![p] = "defer"]
            /\ ares' = [ares EXCEPT ![p] = Err("failed to commit migration")]
            /\ UNCHANGED <<effects, history>>
    /\ UNCHANGED <<up, aidx, asent, arow, asaw>>
    /\ UNCHANGED notApply

\* the deferred function of a call that did not reach "rollback = nil"
ApplyDeferred(p) ==
    /\ apc[p] = "defer"
    /\ atx' = [atx EXCEPT ![p] = ApplyRollback(TRUE, @)]
    /\ apc' = [apc EXCEPT ![p] = "done"]
    /\ UNCHANGED <<up, history, effects, aidx, asent, arow, asaw, ares>>
    /\ UNCHANGED notApply

ApplyNext ==
    \E p \in Appliers :
        \/ \E d \in DriverAnswers : Apply(p, d)
        \/ \E d \in DriverAnswers : isMigrationApplied(p, d)
        \/ \E d \in DriverAnswers : ApplyBeginTx(p, d)
        \/ \E d \in DriverAnswers : executeMigration(p, d)
        \/ \E d \in DriverAnswers : recordMigration(p, d)
        \/ \E ok \in BOOLEAN : ApplyCommit(p, ok)
        \/ ApplyDeferred(p)

(***************************************************************************)
(* Plan generation and auto-migration: the entry points of Storm and       *)
(* MigratorImpl, GenerateMigrationSimple with its temporary database, the  *)
(* destructive gate and the push to the target database.                   *)
(***************************************************************************)
\* a schema.Change: a leaf, or a ModifyTable with its sub-changes
Leaf(kind) == [kind |-> kind, changes |-> << >>]
ModifyTable(changes) == [kind |-> "ModifyTable", changes |-> changes]

\* the kinds of change found inside a ModifyTable
LeafKinds == {"AddColumn", "DropColumn", "DropIndex", "DropForeignKey"}

\* the changes a diff can yield: tables added and dropped, tables modified by
\* one or two sub-changes, and a modification nested in another
PlanChanges ==
    {Leaf("AddTable"), Leaf("DropTable")}
        \cup {ModifyTable(<<Leaf(k)>>) : k \in LeafKinds}
        \cup {ModifyTable(<<Leaf("AddColumn"), Leaf("DropColumn")>>),
              ModifyTable(<<ModifyTable(<<Leaf("DropColumn")>>)>>)}

\* the mutant: the sub-changes of a ModifyTable are not looked at
IsDestructiveChange_shallow(change) ==
    change.kind \in {"DropTable", "DropColumn", "DropIndex", "DropForeignKey"}

RECURSIVE IsDestructiveChange(_)
IsDestructiveChange(change) ==
    CASE change.kind \in {"DropTable", "DropColumn", "DropIndex", "DropForeignKey"} -> TRUE
      [] change.kind = "ModifyTable" ->
            \E i \in DOMAIN change.changes : IsDestructiveChange(change.changes[i])
      [] OTHER -> FALSE

\* CountDestructiveChanges: the count (the descriptions are left out)
CountDestructiveChanges(changes) ==
    Cardinality({i \in DOMAIN changes : IsDestructiveChange(changes[i])})

\* the MigrationOptions each entry point hands to GenerateMigration
MigrationOptions(entry, dryRun, allowDestructive, pushToDB) ==
    [entry |-> entry, DryRun |-> dryRun, AllowDestructive |-> allowDestructive,
     PushToDB |-> pushToDB]

\* Storm.AutoMigrate, AutoMigrateDryRun, AutoMigrateDestructive (runMigration:
\* PushToDB is !dryRun), MigratorImpl.AutoMigrate (PushToDB is true whatever
\* opts.DryRun says) and MigratorImpl.generateMigration (migration files)
EntryOptions ==
    {MigrationOptions("Storm.AutoMigrate", FALSE, FALSE, TRUE),
     MigrationOptions("Storm.AutoMigrateDryRun", TRUE, FALSE, FALSE),
     MigrationOptions("Storm.AutoMigrateDestructive", FALSE, TRUE, TRUE),
     MigrationOptions("MigratorImpl.generateMigration", FALSE, FALSE, FALSE)}
    \cup {MigrationOptions("MigratorImpl.AutoMigrate", d, a, TRUE) : d, a \in BOOLEAN}

\* the mutant: PushToDB is looked at before DryRun
AfterGate_pushFirst(o, changes) ==
    IF CountDestructiveChanges(changes) > 0 /\ ~o.AllowDestructive THEN "destructive"
    ELSE IF o.PushToDB THEN "push"
    ELSE "return"

\* GenerateMigration once the plan is there: the destructive gate, then the
\* dry run (the plan is returned), then the push or the migration files
AfterGate(o, changes) ==
    IF CountDestructiveChanges(changes) > 0 /\ ~o.AllowDestructive THEN "destructive"
    ELSE IF o.DryRun THEN "return"
    ELSE IF o.PushToDB THEN "push"
    ELSE "return"

StepResults == {"ok", "err", "panic"}

\* what a failed step leaves as the call's result
Failure(r, what) == IF r = "panic" THEN Panic(what) ELSE Err(what)

GenStart ==
    /\ gpc = "idle"
    /\ gopts = MigrationOptions("none", FALSE, FALSE, FALSE)
    /\ gctxDone = FALSE
    /\ temp = FALSE
    /\ tempMade = FALSE
    /\ plan = << >>
    /\ written = << >>
    /\ gres = None

\* an entry point builds its options and calls GenerateMigration
EnterMigration(o) ==
    /\ gpc = "idle"
    /\ gopts' = o
    /\ gpc' = "inspect"
    /\ UNCHANGED <<gctxDone, temp, tempMade, plan, written, gres>>
    /\ UNCHANGED notGen

\* the caller's ctx is cancelled while the call runs
GenCancelCtx ==
    /\ gpc \notin {"idle", "done"}
    /\ ~gctxDone
    /\ gctxDone' = TRUE
    /\ UNCHANGED <<gpc, gopts, temp, tempMade, plan, written, gres>>
    /\ UNCHANGED notGen

\* GenerateMigrationSimple: postgres.Open(sourceDB), InspectRealm(ctx)
InspectCurrent(r) ==
    /\ gpc = "inspect"
    /\ r \in {"ok", "err"}
    /\ gctxDone => r # "ok"
    /\ IF r = "ok" THEN gpc' = "create" /\ gres' = gres
       ELSE gpc' = "done" /\ gres' = Err("failed to inspect current schema")
    /\ UNCHANGED <<gopts, gctxDone, temp, tempMade, plan, written>>
    /\ UNCHANGED notGen

\* CreateTempDB: connect to the admin database, CREATE DATABASE temp_atlas_<t>
CreateTempDB(r) ==
    /\ gpc = "create"
    /\ r \in {"ok", "err"}
    /\ gctxDone => r # "ok"
    /\ IF r = "ok"
       THEN gpc' = "connect" /\ temp' = TRUE /\ tempMade' = TRUE /\ gres' = gres
       ELSE /\ gpc' = "done" /\ gres' = Err("failed to create temp database")
            /\ UNCHANGED <<temp, tempMade>>
    /\ UNCHANGED <<gopts, gctxDone, plan, written>>
    /\ UNCHANGED notGen

\* DROP DATABASE IF EXISTS through adminDB.ExecContext(ctx, ...): nothing is
\* sent when ctx is cancelled, and the error is dropped
cleanupTempDB(ctxCancelled) == IF ctxCancelled THEN temp ELSE FALSE

\* CreateTempDB: tempConfig.Connect(ctx); on failure
\* tm.cleanupTempDB(ctx, adminDB, tempDBName) with the caller's ctx
ConnectTempDB(r) ==
    /\ gpc = "connect"
    /\ r \in {"ok", "err"}
    /\ gctxDone => r # "ok"
    /\ IF r = "ok"
       THEN gpc' = "load" /\ UNCHANGED <<temp, gres>>
       ELSE /\ temp' = cleanupTempDB(gctxDone)
            /\ gpc' = "done"
            /\ gres' = Err("failed to connect to temp database")
    /\ UNCHANGED <<gopts, gctxDone, tempMade, plan, written>>
    /\ UNCHANGED notGen

\* the desired DDL is executed in the temporary database and inspected
LoadDDL(r) ==
    /\ gpc = "load"
    /\ r \in StepResults
    /\ gctxDone => r # "ok"
    /\ IF r = "ok" THEN gpc' = "diff" /\ gres' = gres
       ELSE gpc' = "cleanup" /\ gres' = Failure(r, "failed to execute DDL in temp database")
    /\ UNCHANGED <<gopts, gctxDone, temp, tempMade, plan, written>>
    /\ UNCHANGED notGen

\* RealmDiff and GenerateAtlasSQL: the plan
Diff(r, changes) ==
    /\ gpc = "diff"
    /\ r \in StepResults
    /\ gctxDone => r # "ok"
    /\ IF r = "ok" THEN plan' = changes /\ gres' = Nil
       ELSE plan' = plan /\ gres' = Failure(r, "failed to calculate diff")
    /\ gpc' = "cleanup"
    /\ UNCHANGED <<gopts, gctxDone, temp, tempMade, written>>
    /\ UNCHANGED notGen

\* defer cleanup(): tempDB.Close(), cleanupTempDB(context.Background(), ...),
\* adminDB.Close(); then GenerateMigrationSimple returns or panics on
Cleanup ==
    /\ gpc = "cleanup"
    /\ temp' = cleanupTempDB(FALSE)
    /\ gpc' = IF gres = Nil THEN "gate" ELSE "done"
    /\ UNCHANGED <<gopts, gctxDone, tempMade, plan, written, gres>>
    /\ UNCHANGED notGen

\* GenerateMigration after the plan: a destructive plan without
\* AllowDestructive is refused; a dry run returns the plan; otherwise the plan
\* is pushed or handed back for the migration files
Gate ==
    /\ gpc = "gate"
    /\ LET to == AfterGate(gopts, plan) IN
         /\ gpc' = IF to = "push" /\ plan # << >> THEN "push" ELSE "done"
         /\ gres' = IF to = "destructive" THEN Err("storm: destructive change detected") ELSE Nil
    /\ UNCHANGED <<gopts, gctxDone, temp, tempMade, plan, written>>
    /\ UNCHANGED notGen

\* the push: the plan's statements reach the target database, all of them or,
\* when one fails, the ones before it
Push(r, n) ==
    /\ gpc = "push"
    /\ r \in {"ok", "err"}
    /\ gctxDone => r # "ok"
    /\ n \in 0..Len(plan)
    /\ (r = "ok") <=> (n = Len(plan))
    /\ written' = SubSeq(plan, 1, n)
    /\ gres' = IF r = "ok" THEN Nil ELSE Err("failed to apply migration")
    /\ gpc' = "done"
    /\ UNCHANGED <<gopts, gctxDone, temp, tempMade, plan>>
    /\ UNCHANGED notGen

GenNext ==
    \/ \E o \in EntryOptions : EnterMigration(o)
    \/ GenCancelCtx
    \/ \E r \in StepResults : InspectCurrent(r)
    \/ \E r \in StepResults : CreateTempDB(r)
    \/ \E r \in StepResults : ConnectTempDB(r)
    \/ \E r \in StepResults : LoadDDL(r)
    \/ \E r \in StepResults : \E changes \in SeqsUpTo(PlanChanges, MaxPlan) : Diff(r, changes)
    \/ Cleanup
    \/ Gate
    \/ \E r \in StepResults : \E n \in 0..MaxPlan : Push(r, n)

(***************************************************************************)
(* The query builder: Where, Join, OrderBy, Limit and Offset collect the   *)
(* query, and the terminal operations Update, Find and Count render it.    *)
(* SQL text is a sequence of one-character strings, so that the            *)
(* replacements of Update work on the text as strings.Replace does.        *)
(***************************************************************************)
DigitChars == <<"0", "1", "2", "3", "4", "5", "6", "7", "8", "9">>

\* fmt.Sprintf("%d", n)
RECURSIVE Digits(_)
Digits(n) ==
    IF n < 10 THEN <<DigitChars[n + 1]>>
    ELSE Digits(n \div 10) \o <<DigitChars[(n % 10) + 1]>>

\* fmt.Sprintf("$%d", n)
Placeholder(n) == <<"$">> \o Digits(n)

\* strings.Index: where old first starts in s, 0 when it does not occur
Index(s, old) ==
    LET at == {i \in 1..(Len(s) - Len(old) + 1) : SubSeq(s, i, i + Len(old) - 1) = old}
    IN IF at = {} THEN 0 ELSE CHOOSE i \in at : \A j \in at : i <= j

\* strings.Contains
Contains(s, old) == Index(s, old) # 0

\* strings.Replace(s, old, new, 1)
ReplaceFirst(s, old, new) ==
    LET i == Index(s, old)
    IN IF i = 0 THEN s
       ELSE SubSeq(s, 1, i - 1) \o new \o SubSeq(s, i + Len(old), Len(s))

\* strings.Replace(s, old, new, -1): left to right, what was put in is not
\* looked at again
RECURSIVE ReplaceEvery(_, _, _)
ReplaceEvery(s, old, new) ==
    LET i == Index(s, old)
    IN IF i = 0 THEN s
       ELSE SubSeq(s, 1, i - 1) \o new
                \o ReplaceEvery(SubSeq(s, i + Len(old), Len(s)), old, new)

\* strings.Join(parts, ", ")
RECURSIVE StringsJoin(_, _)
StringsJoin(parts, sep) ==
    IF parts = << >> THEN << >>
    ELSE IF Len(parts) = 1 THEN parts[1]
    ELSE parts[1] \o sep \o StringsJoin(Tail(parts), sep)

\* the conditions: a text with `?`s and their parameters
Condition(name, text, nparams) == [name |-> name, text |-> text, nparams |-> nparams]
Conditions ==
    { Condition("deletedIsNull", <<"d">>, 0),
      Condition("isActive", <<"a", "=", "?">>, 1),
      Condition("idIn", <<"i", "(", "?", ",", "?", ")">>, 2) }

\* the parameters of the conditions, in order: condition j's k-th is <<"w", j, k>>
RECURSIVE WhereArgs(_, _)
WhereArgs(conds, j) ==
    IF j > Len(conds) THEN << >>
    ELSE [k \in 1..conds[j].nparams |-> <<"w", j, k>>] \o WhereArgs(conds, j + 1)

\* squirrel's PlaceholderFormat(Dollar): the `?`s become $1, $2, ... in order
RECURSIVE Dollar(_, _)
Dollar(text, n) ==
    IF Contains(text, <<"?">>)
    THEN Dollar(ReplaceFirst(text, <<"?">>, Placeholder(n)), n + 1)
    ELSE text

\* squirrel.Select("1").Where(q.whereClause).ToSql() from "WHERE" on
WhereSql(conds) ==
    Dollar(<<"W", "(">> \o StringsJoin([j \in 1..Len(conds) |-> conds[j].text], <<"&">>) \o <<")">>, 1)

\* an Action: Expression() and Value(), the value nil, one value or a slice
Action(name, expr, kind, nvals) == [name |-> name, expr |-> expr, kind |-> kind, nvals |-> nvals]
Actions ==
    { Action("SetNow", <<"t", "=", "n">>, "nil", 0),
      Action("Set", <<"c", "=", "?">>, "scalar", 1),
      Action("Between", <<"b", "=", "?", "+", "?">>, "slice", 2) }

\* the values of action number i
ActionValues(action, i) == [k \in 1..action.nvals |-> <<"a", i, k>>]

\* the body of Update's loop for one action: the expression with its `?`s
\* numbered, the arguments appended, the counter moved on
RECURSIVE NumberSlice(_, _, _, _)
NumberSlice(expression, vals, args, argIndex) ==
    IF vals = << >> THEN [expression |-> expression, args |-> args, argIndex |-> argIndex]
    ELSE NumberSlice(ReplaceFirst(expression, <<"?">>, Placeholder(argIndex)),
                     Tail(vals), Append(args, Head(vals)), argIndex + 1)

RECURSIVE NumberScalar(_, _, _, _)
NumberScalar(expression, value, args, argIndex) ==
    IF ~Contains(expression, <<"?">>)
    THEN [expression |-> expression, args |-> args, argIndex |-> argIndex]
    ELSE NumberScalar(ReplaceFirst(expression, <<"?">>, Placeholder(argIndex)),
                      value, Append(args, value), argIndex + 1)

RenderAction(action, i, args, argIndex) ==
    CASE action.kind = "nil" ->
            [expression |-> action.expr, args |-> args, argIndex |-> argIndex]
      [] action.kind = "slice" ->
            NumberSlice(action.expr, ActionValues(action, i), args, argIndex)
      [] OTHER ->
            NumberScalar(action.expr, ActionValues(action, i)[1], args, argIndex)

\* Update's loop over the actions, from action i on
RECURSIVE RenderActions(_, _, _)
RenderActions(actions, i, acc) ==
    IF i > Len(actions) THEN acc
    ELSE LET r == RenderAction(actions[i], i, acc.args, acc.argIndex)
         IN RenderActions(actions, i + 1,
                [setParts |-> Append(acc.setParts, r.expression),
                 args |-> r.args, argIndex |-> r.argIndex])

\* Update's loop over whereArgs: $i+1 becomes $argIndex+i, for i = 0, 1, ...
RECURSIVE Renumber(_, _, _, _)
Renumber(whereClause, i, n, argIndex) ==
    IF i >= n THEN whereClause
    ELSE Renumber(
            ReplaceEvery(whereClause, Placeholder(i + 1), Placeholder(argIndex + i)),
            i + 1, n, argIndex)

\* Query.Update: the statement and its arguments
UpdateSql(actions, conds) ==
    LET set == RenderActions(actions, 1, [setParts |-> << >>, args |-> << >>, argIndex |-> 1])
        baseSQL == <<"U">> \o StringsJoin(set.setParts, <<",">>)
        whereArgs == WhereArgs(conds, 1)
    IN IF Len(conds) > 0
       THEN [sql |-> baseSQL \o <<" ">>
                        \o Renumber(WhereSql(conds), 0, Len(whereArgs), set.argIndex),
             args |-> set.args \o whereArgs]
       ELSE [sql |-> baseSQL, args |-> set.args]

\* ---- the data the statements run against ----
\* the table's rows by id; 0 stands for the all-NULL row an outer join adds
Rows == [r \in 1..NumRows |-> r]

\* how many rows of the joined table match row r
Matching(r) == IF r = 0 THEN 0 ELSE r % 3

JoinTypes == {"INNER", "LEFT", "RIGHT", "FULL"}

RECURSIVE JoinEach(_, _)
JoinEach(rows, type) ==
    IF rows = << >> THEN << >>
    ELSE LET r == Head(rows)
             n == IF type \in {"INNER", "RIGHT"} \/ Matching(r) > 0 THEN Matching(r) ELSE 1
         IN [k \in 1..n |-> r] \o JoinEach(Tail(rows), type)

\* one JOIN: the matching pairs, the unmatched left rows of LEFT and FULL,
\* the one unmatched row of the joined table of RIGHT and FULL
JoinRows(rows, type) ==
    JoinEach(rows, type) \o (IF type \in {"RIGHT", "FULL"} THEN <<0>> ELSE << >>)

RECURSIVE JoinAll(_, _)
JoinAll(rows, joins) ==
    IF joins = << >> THEN rows
    ELSE JoinAll(JoinRows(rows, Head(joins)), Tail(joins))

\* whether a row satisfies a condition
Holds(cond, r) ==
    CASE cond.name = "deletedIsNull" -> r # 2
      [] cond.name = "isActive" -> r # 0 /\ r % 2 = 1
      [] OTHER -> r \in {1, 2}

\* a *uint64 of the builder
Unset == [set |-> FALSE, n |-> 0]
SetTo(n) == [set |-> TRUE, n |-> n]

\* a squirrel.SelectBuilder, as far as the rows it yields go
SelectBuilder(joins, where, orderBy, limit, offset) ==
    [joins |-> joins, where |-> where, orderBy |-> orderBy, limit |-> limit, offset |-> offset]

\* the rows the statement of a builder returns
Execute(b) ==
    LET joined == JoinAll(Rows, b.joins)
        Keep(r) == \A j \in 1..Len(b.where) : Holds(b.where[j], r)
        filtered == SelectSeq(joined, Keep)
        Desc(x, y) == x > y
        ordered == IF b.orderBy = << >> THEN filtered ELSE SortSeq(filtered, Desc)
        from == IF b.offset.set THEN b.offset.n + 1 ELSE 1
        skipped == SubSeq(ordered, from, Len(ordered))
    IN IF b.limit.set /\ b.limit.n < Len(skipped)
       THEN SubSeq(skipped, 1, b.limit.n)
       ELSE skipped

\* Find's finalBuilder: joins, where, orderBy, limit, offset
FindBuilder == SelectBuilder(qjoins, qwhere, qorder, qlimit, qoffset)

\* Count's countBuilder: SELECT COUNT(*) with the joins and the where
CountBuilder == SelectBuilder(qjoins, qwhere, << >>, Unset, Unset)

\* ---- the builder and its terminal operations ----
Out(op, sql, args, rows, n, err) ==
    [op |-> op, sql |-> sql, args |-> args, rows |-> rows, n |-> n, err |-> err]
NoOut == Out("none", << >>, << >>, << >>, 0, "")

\* Query.err when no builder error is recorded
NoErr == ""

\* Repository.Query: an empty builder
QueryStart ==
    /\ qwhere = << >>
    /\ qjoins = << >>
    /\ qorder = << >>
    /\ qlimit = Unset
    /\ qoffset = Unset
    /\ qout = NoOut
    /\ qerr = NoErr

Where(condition) ==
    /\ Len(qwhere) < MaxWhere
    /\ IF qerr # NoErr THEN UNCHANGED queryVars
       ELSE /\ qwhere' = Append(qwhere, condition)
            /\ qout' = NoOut
            /\ UNCHANGED <<qjoins, qorder, qlimit, qoffset, qerr>>
    /\ UNCHANGED notQuery

Join(joinType) ==
    /\ Len(qjoins) < MaxJoins
    /\ IF qerr # NoErr THEN UNCHANGED queryVars
       ELSE /\ qjoins' = Append(qjoins, joinType)
            /\ qout' = NoOut
            /\ UNCHANGED <<qwhere, qorder, qlimit, qoffset, qerr>>
    /\ UNCHANGED notQuery

OrderBy ==
    /\ Len(qorder) < MaxOrder
    /\ IF qerr # NoErr THEN UNCHANGED queryVars
       ELSE /\ qorder' = Append(qorder, "id DESC")
            /\ qout' = NoOut
            /\ UNCHANGED <<qwhere, qjoins, qlimit, qoffset, qerr>>
    /\ UNCHANGED notQuery

Limit(limit) ==
    /\ qlimit # SetTo(limit)
    /\ IF qerr # NoErr THEN UNCHANGED queryVars
       ELSE /\ qlimit' = SetTo(limit)
            /\ qout' = NoOut
            /\ UNCHANGED <<qwhere, qjoins, qorder, qoffset, qerr>>
    /\ UNCHANGED notQuery

Offset(offset) ==
    /\ qoffset # SetTo(offset)
    /\ IF qerr # NoErr THEN UNCHANGED queryVars
       ELSE /\ qoffset' = SetTo(offset)
            /\ qout' = NoOut
            /\ UNCHANGED <<qwhere, qjoins, qorder, qlimit, qerr>>
    /\ UNCHANGED notQuery

\* Query.Update(actions...): the statement handed to the driver
QueryUpdate(actions) ==
    /\ qout' = IF actions = << >>
               THEN Out("update", << >>, << >>, << >>, 0, "no actions provided")
               ELSE LET u == UpdateSql(actions, qwhere)
                    IN Out("update", u.sql, u.args, << >>, 0, "")
    /\ qout' # qout
    /\ UNCHANGED <<qwhere, qjoins, qorder, qlimit, qoffset, qerr>>
    /\ UNCHANGED notQuery

\* Query.Find (no includes): the records
QueryFind ==
    /\ qout.op # "find"
    /\ qout' = Out("find", << >>, << >>, Execute(FindBuilder), 0, "")
    /\ UNCHANGED <<qwhere, qjoins, qorder, qlimit, qoffset, qerr>>
    /\ UNCHANGED notQuery

\* Query.Count: the one number of SELECT COUNT(*)
QueryCount ==
    /\ qout.op # "count"
    /\ qout' = Out("count", << >>, << >>, << >>, Len(Execute(CountBuilder)), "")
    /\ UNCHANGED <<qwhere, qjoins, qorder, qlimit, qoffset, qerr>>
    /\ UNCHANGED notQuery

\* a builder call that fails: the error is kept on the Query
RecordError ==
    /\ qerr = NoErr
    /\ qerr' = "builder error"
    /\ UNCHANGED <<qwhere, qjoins, qorder, qlimit, qoffset, qout>>
    /\ UNCHANGED notQuery

UpdateNext ==
    \/ \E condition \in Conditions : Where(condition)
    \/ \E actions \in SeqsUpTo(Actions, MaxActions) : QueryUpdate(actions)

QueryNext ==
    \/ \E condition \in Conditions : Where(condition)
    \/ \E joinType \in JoinTypes : Join(joinType)
    \/ OrderBy
    \/ \E limit \in 0..MaxLimit : Limit(limit)
    \/ \E offset \in 0..MaxLimit : Offset(offset)
    \/ QueryFind
    \/ QueryCount

ChainNext ==
    \/ QueryNext
    \/ RecordError
    \/ \E actions \in SeqsUpTo(Actions, 1) : QueryUpdate(actions)

(***************************************************************************)
(* StringArray: the text[] column type. Value writes the array literal,    *)
(* Scan reads it back. Text is a sequence of one-character strings.        *)
(***************************************************************************)
\* the characters that matter to the literal: a letter, the quote, the comma
ArrayChars == {"a", "\"", ","}

\* a StringArray: the nil slice, or a slice with its strings
NilArray == [isNil |-> TRUE, elems |-> << >>]
ArrayOf(elems) == [isNil |-> FALSE, elems |-> elems]

StringArrays ==
    {NilArray} \cup {ArrayOf(e) : e \in SeqsUpTo(SeqsUpTo(ArrayChars, MaxStrLen), MaxArrLen)}

\* a driver.Value: nil or a string
NilValue == [isNil |-> TRUE, text |-> << >>]
TextValue(text) == [isNil |-> FALSE, text |-> text]

\* StringArray.Value
Value(array) ==
    IF array.isNil THEN NilValue
    ELSE IF Len(array.elems) = 0 THEN TextValue(<<"{", "}">>)
    ELSE LET escaped == [k \in 1..Len(array.elems) |->
                            <<"\"">> \o ReplaceEvery(array.elems[k], <<"\"">>, <<"\"", "\"">>)
                                     \o <<"\"">>]
         IN TextValue(<<"{">> \o StringsJoin(escaped, <<",">>) \o <<"}">>)

\* the loop of parseArray over content, from the (0-based) index i on, and
\* what follows it: the last element is appended when it is not empty or
\* when there was an element before it
RECURSIVE ParseLoop(_, _, _, _, _)
ParseLoop(content, i, result, current, inQuotes) ==
    IF i >= Len(content)
    THEN IF Len(current) > 0 \/ Len(result.elems) > 0
         THEN ArrayOf(Append(result.elems, current))
         ELSE result
    ELSE LET char == content[i + 1] IN
         CASE char = "\"" /\ inQuotes /\ i + 1 < Len(content) /\ content[i + 2] = "\"" ->
                ParseLoop(content, i + 2, result, Append(current, "\""), inQuotes)
           [] char = "\"" ->
                ParseLoop(content, i + 1, result, current, ~inQuotes)
           [] char = "," /\ ~inQuotes ->
                ParseLoop(content, i + 1, ArrayOf(Append(result.elems, current)), << >>, inQuotes)
           [] OTHER ->
                ParseLoop(content, i + 1, result, Append(current, char), inQuotes)

\* StringArray.parseArray: the error, or the slice assigned to *sa
parseArray(text) ==
    IF text = << >> \/ text = <<"{", "}">>
    THEN [err |-> FALSE, array |-> ArrayOf(<< >>)]
    ELSE IF Head(text) # "{" \/ text[Len(text)] # "}"
    THEN [err |-> TRUE, array |-> NilArray]
    ELSE [err |-> FALSE,
          array |-> ParseLoop(SubSeq(text, 2, Len(text) - 1), 0, NilArray, << >>, FALSE)]

\* StringArray.Scan of a nil or string value
Scan(value) ==
    IF value.isNil THEN [err |-> FALSE, array |-> NilArray]
    ELSE parseArray(value.text)

ArrStart ==
    /\ saOrig = NilArray
    /\ wire = NilValue
    /\ sa = [err |-> FALSE, array |-> NilArray]
    /\ sapc = "new"

\* a StringArray is handed to the driver
StoreArray(array) ==
    /\ sapc = "new"
    /\ saOrig' = array
    /\ sapc' = "stored"
    /\ UNCHANGED <<wire, sa>>
    /\ UNCHANGED notArr

ArrayValue ==
    /\ sapc = "stored"
    /\ wire' = Value(saOrig)
    /\ sapc' = "valued"
    /\ UNCHANGED <<saOrig, sa>>
    /\ UNCHANGED notArr

ArrayScan ==
    /\ sapc = "valued"
    /\ sa' = Scan(wire)
    /\ sapc' = "scanned"
    /\ UNCHANGED <<saOrig, wire>>
    /\ UNCHANGED notArr

ArrNext ==
    \/ \E array \in StringArrays : StoreArray(array)
    \/ ArrayValue
    \/ ArrayScan

(***************************************************************************)
(* JSONData: the nullable JSON carrier. Data is a pointer to the carried    *)
(* value (nil, or a pointer with what it points to), Valid is the flag.    *)
(***************************************************************************)
NilPtr == [isNil |-> TRUE, val |-> "-"]
PtrTo(val) == [isNil |-> FALSE, val |-> val]

JSONData(data, valid) == [Data |-> data, Valid |-> valid]

\* the values handed to NewJSONData and Set: the nil interface, and values
\* that are not the nil interface (a nil pointer of some type among them)
GoValues == {"nil", "int 1", "string x", "map", "nil *T"}

\* what Scan is handed: nil, a string, or bytes (no bytes, JSON documents,
\* text that is no JSON)
ScanInputs ==
    {[type |-> "nil", doc |-> ""], [type |-> "string", doc |-> "{}"]}
        \cup {[type |-> "bytes", doc |-> d] : d \in {"", "null", "1", "\"x\"", "{\"k\":1}", "{"}}

\* json.Unmarshal(bytes, &data)
Unmarshal(doc) ==
    CASE doc = "null" -> [err |-> FALSE, data |-> "nil"]
      [] doc = "1" -> [err |-> FALSE, data |-> "float64 1"]
      [] doc = "\"x\"" -> [err |-> FALSE, data |-> "string x"]
      [] doc = "{\"k\":1}" -> [err |-> FALSE, data |-> "map"]
      [] OTHER -> [err |-> TRUE, data |-> "nil"]

NewJSONData(data) == JSONData(PtrTo(data), TRUE)

NewNullJSONData == JSONData(NilPtr, FALSE)

\* JSONData.Set
JSONDataSet(j, data) ==
    IF data = "nil" THEN JSONData(NilPtr, FALSE) ELSE JSONData(PtrTo(data), TRUE)

\* the mutant: a scanned NULL clears Data and leaves Valid as it was
JSONDataScan_validKept(j, value) ==
    IF value.type = "nil" THEN [err |-> FALSE, j |-> JSONData(NilPtr, j.Valid)]
    ELSE IF value.type # "bytes" THEN [err |-> TRUE, j |-> j]
    ELSE IF value.doc = "" THEN [err |-> FALSE, j |-> JSONData(NilPtr, j.Valid)]
    ELSE LET u == Unmarshal(value.doc)
         IN IF u.err THEN [err |-> TRUE, j |-> j]
            ELSE [err |-> FALSE, j |-> JSONData(PtrTo(u.data), TRUE)]

\* JSONData.Scan: the error and the field afterwards
JSONDataScan(j, value) ==
    IF value.type = "nil" THEN [err |-> FALSE, j |-> JSONData(NilPtr, FALSE)]
    ELSE IF value.type # "bytes" THEN [err |-> TRUE, j |-> j]
    ELSE IF value.doc = "" THEN [err |-> FALSE, j |-> JSONData(NilPtr, FALSE)]
    ELSE LET u == Unmarshal(value.doc)
         IN IF u.err THEN [err |-> TRUE, j |-> j]
            ELSE [err |-> FALSE, j |-> JSONData(PtrTo(u.data), TRUE)]

JsonOp(op, arg, err) == [op |-> op, arg |-> arg, err |-> err]

\* the zero JSONData, as in a record that was just declared
JsonStart ==
    /\ jfield = JSONData(NilPtr, FALSE)
    /\ jlog = << >>

Construct(data) ==
    /\ jlog = << >>
    /\ jfield' = NewJSONData(data)
    /\ jlog' = <<JsonOp("NewJSONData", data, FALSE)>>
    /\ UNCHANGED notJson

ConstructNull ==
    /\ jlog = << >>
    /\ jfield' = NewNullJSONData
    /\ jlog' = <<JsonOp("NewNullJSONData", "-", FALSE)>>
    /\ UNCHANGED notJson

SetJSON(data) ==
    /\ Len(jlog) < MaxOps
    /\ jfield' = JSONDataSet(jfield, data)
    /\ jlog' = Append(jlog, JsonOp("Set", data, FALSE))
    /\ UNCHANGED notJson

ScanJSON(value) ==
    /\ Len(jlog) < MaxOps
    /\ LET r == JSONDataScan(jfield, value) IN
         /\ jfield' = r.j
         /\ jlog' = Append(jlog, JsonOp("Scan " \o value.type, value.doc, r.err))
    /\ UNCHANGED notJson

JsonNext ==
    \/ \E data \in GoValues : Construct(data)
    \/ ConstructNull
    \/ \E data \in GoValues : SetJSON(data)
    \/ \E value \in ScanInputs : ScanJSON(value)

(***************************************************************************)
(* The up script as text: splitSQLStatements, isOnlyComments and the       *)
(* statements executeMigration sends. Text is a sequence of one-character  *)
(* strings; "C", "D" stand for the words CREATE DATABASE ("c", "d" in      *)
(* lower case).                                                            *)
(***************************************************************************)
\* the pieces scripts are put together from: a word, the semicolon, the two
\* dollar-quote delimiters, a comment line, CREATE DATABASE as a statement's
\* own words, and a string literal that holds those words
Token(name) ==
    CASE name = "word" -> <<"a", " ">>
      [] name = ";" -> <<";", "\n">>
      [] name = "$$" -> <<"$", "$">>
      [] name = "$t$" -> <<"$", "t", "$">>
      [] name = "comment" -> <<"-", "-", "a", "\n">>
      [] name = "create database" -> <<"C", "D", " ">>
      [] OTHER -> <<"'", "c", "d", "'">>

TokenNames == {"word", ";", "$$", "$t$", "comment", "create database", "literal"}

RECURSIVE Flatten(_)
Flatten(names) ==
    IF names = << >> THEN << >> ELSE Token(Head(names)) \o Flatten(Tail(names))

\* the scripts: every sequence of up to MaxTokens pieces, and the DO block
\* of the specification, `DO $$ BEGIN SELECT 1; END $$;`
Scripts ==
    {Flatten(names) : names \in SeqsUpTo(TokenNames, MaxTokens)}
        \cup {Flatten(<<"word", "$$", "word", "word", ";", "word", "$$", ";">>)}

IsSpace(c) == c \in {" ", "\n"}

\* strings.TrimSpace
RECURSIVE TrimSpace(_)
TrimSpace(text) ==
    IF text = << >> THEN text
    ELSE IF IsSpace(Head(text)) THEN TrimSpace(Tail(text))
    ELSE IF IsSpace(text[Len(text)]) THEN TrimSpace(SubSeq(text, 1, Len(text) - 1))
    ELSE text

\* strings.Split(text, "\n")
RECURSIVE SplitLines(_, _)
SplitLines(text, line) ==
    IF text = << >> THEN <<line>>
    ELSE IF Head(text) = "\n" THEN <<line>> \o SplitLines(Tail(text), << >>)
    ELSE SplitLines(Tail(text), Append(line, Head(text)))

\* strings.HasPrefix
HasPrefix(text, prefix) ==
    Len(text) >= Len(prefix) /\ SubSeq(text, 1, Len(prefix)) = prefix

\* strings.ToUpper
ToUpper(text) ==
    [k \in 1..Len(text) |->
        CASE text[k] = "c" -> "C" [] text[k] = "d" -> "D" [] text[k] = "a" -> "A"
          [] text[k] = "t" -> "T" [] OTHER -> text[k]]

isOnlyComments(stmt) ==
    LET lines == SplitLines(stmt, << >>)
    IN \A k \in 1..Len(lines) :
          LET trimmed == TrimSpace(lines[k])
          IN trimmed = << >> \/ HasPrefix(trimmed, <<"-", "-">>)

\* what splitSQLStatements does with the text collected in current
Emit(statements, current) ==
    LET stmt == TrimSpace(current)
    IN IF stmt # << >> /\ ~isOnlyComments(stmt) THEN Append(statements, stmt) ELSE statements

\* the loop of splitSQLStatements from the (0-based) index i on
RECURSIVE SplitLoop(_, _, _, _, _)
SplitLoop(runes, i, statements, current, inDollarQuote) ==
    IF i >= Len(runes)
    THEN IF Len(current) > 0 THEN Emit(statements, current) ELSE statements
    ELSE LET char == runes[i + 1] IN
         IF char = "$" /\ i + 1 < Len(runes) /\ runes[i + 2] = "$"
         THEN SplitLoop(runes, i + 2, statements, current \o <<"$", "$">>, ~inDollarQuote)
         ELSE IF ~inDollarQuote /\ char = ";"
         THEN SplitLoop(runes, i + 1, Emit(statements, Append(current, char)), << >>, inDollarQuote)
         ELSE SplitLoop(runes, i + 1, statements, Append(current, char), inDollarQuote)

splitSQLStatements(sql) == SplitLoop(sql, 0, << >>, << >>, FALSE)

\* the check executeMigration makes before it skips a statement
IsCreateDatabase(stmt) == Contains(ToUpper(stmt), <<"C", "D">>)

\* executeMigration without a failing statement: the statements handed to
\* tx.ExecContext, in order
RECURSIVE ExecLoop(_, _)
ExecLoop(statements, done) ==
    IF statements = << >> THEN done
    ELSE LET stmt == TrimSpace(Head(statements))
         IN IF stmt = << >> \/ IsCreateDatabase(stmt)
            THEN ExecLoop(Tail(statements), done)
            ELSE ExecLoop(Tail(statements), Append(done, stmt))

SplitStart ==
    /\ script = << >>
    /\ stmts = << >>
    /\ sent = << >>
    /\ spc = "new"

\* a migration with this up script is loaded
LoadScript(sql) ==
    /\ spc = "new"
    /\ script' = sql
    /\ spc' = "loaded"
    /\ UNCHANGED <<stmts, sent>>
    /\ UNCHANGED notSplit

\* executeMigration up to the loop: UpSQL is split
SplitScript ==
    /\ spc = "loaded"
    /\ stmts' = IF script = << >> THEN << >> ELSE splitSQLStatements(script)
    /\ spc' = "split"
    /\ UNCHANGED <<script, sent>>
    /\ UNCHANGED notSplit

\* executeMigration's loop, every statement accepted by the database
ExecuteScript ==
    /\ spc = "split"
    /\ sent' = ExecLoop(stmts, << >>)
    /\ spc' = "executed"
    /\ UNCHANGED <<script, stmts>>
    /\ UNCHANGED notSplit

SplitNext ==
    \/ \E sql \in Scripts : LoadScript(sql)
    \/ SplitScript
    \/ ExecuteScript

(***************************************************************************)
(* DatabaseSchema.GetTableNames and sortTablesByDependencies.              *)
(***************************************************************************)
\* the table names, in the order of sort.Strings
NameOrder == <<"comments", "posts", "users">>
TableNames == {NameOrder[k] : k \in 1..Len(NameOrder)}
Rank(name) == CHOOSE k \in 1..Len(NameOrder) : NameOrder[k] = name

\* sequences without a repeated element
Injective(q) == \A i, j \in 1..Len(q) : q[i] = q[j] => i = j

\* the orders `for name := range s.Tables` can yield for the tables in S
Orders(S) == {q \in SeqsUpTo(S, Cardinality(S)) : Len(q) = Cardinality(S) /\ Injective(q)}

\* the schemas GenerateSchema lets through validateForeignKeys: every foreign
\* key references a table of the schema (itself included)
Schemas ==
    UNION {[S -> {q \in SeqsUpTo(S, MaxFK) : Injective(q)}] : S \in SUBSET TableNames \ {{}}}

\* sort.Strings
SortStrings(tables) == SortSeq(tables, LAMBDA x, y : Rank(x) < Rank(y))

\* the referenced tables of a table: dependents[table], nil for a name that
\* is not among the input
Dependents(schema, tables, table) ==
    IF \E k \in 1..Len(tables) : tables[k] = table THEN schema[table] ELSE << >>

RECURSIVE Visit(_, _, _, _)
RECURSIVE VisitAll(_, _, _, _)

\* the mutant: the table is appended before the tables it references
Visit_preorder(schema, tables, table, st) ==
    IF table \in st.visiting THEN [st EXCEPT !.ok = FALSE]
    ELSE IF table \in st.visited THEN st
    ELSE LET in == [st EXCEPT !.visiting = @ \cup {table}, !.result = Append(@, table)]
             after == VisitAll(schema, tables, Dependents(schema, tables, table), in)
         IN IF ~after.ok THEN after
            ELSE [after EXCEPT !.visiting = @ \ {table}, !.visited = @ \cup {table}]

\* the mutant: a table that was visited before is visited again
Visit_unmarked(schema, tables, table, st) ==
    IF table \in st.visiting THEN [st EXCEPT !.ok = FALSE]
    ELSE LET in == [st EXCEPT !.visiting = @ \cup {table}]
             after == VisitAll(schema, tables, Dependents(schema, tables, table), in)
         IN IF ~after.ok THEN after
            ELSE [after EXCEPT !.visiting = @ \ {table}, !.visited = @ \cup {table},
                               !.result = Append(@, table)]

\* `for _, dep := range dependents[table] { if !visit(dep) { return false } }`
VisitAll(schema, tables, deps, st) ==
    IF deps = << >> \/ ~st.ok THEN st
    ELSE VisitAll(schema, tables, Tail(deps), Visit(schema, tables, Head(deps), st))

\* the closure visit: ok is false when it returned false
Visit(schema, tables, table, st) ==
    IF table \in st.visiting THEN [st EXCEPT !.ok = FALSE]
    ELSE IF table \in st.visited THEN st
    ELSE LET in == [st EXCEPT !.visiting = @ \cup {table}]
             after == VisitAll(schema, tables, Dependents(schema, tables, table), in)
         IN IF ~after.ok THEN after
            ELSE [after EXCEPT !.visiting = @ \ {table}, !.visited = @ \cup {table},
                               !.result = Append(@, table)]

\* the loop over the input: a table not visited yet is visited
RECURSIVE SortLoop(_, _, _, _)
SortLoop(schema, tables, k, st) ==
    IF k > Len(tables) \/ ~st.ok THEN st
    ELSE IF tables[k] \in st.visited THEN SortLoop(schema, tables, k + 1, st)
    ELSE SortLoop(schema, tables, k + 1, Visit(schema, tables, tables[k], st))

sortTablesByDependencies(schema, tables) ==
    LET st == SortLoop(schema, tables, 1,
                       [visited |-> {}, visiting |-> {}, result |-> << >>, ok |-> TRUE])
    IN IF st.ok THEN st.result ELSE SortStrings(tables)

SortStart ==
    /\ fks = << >>
    /\ tablesIn = << >>
    /\ tablesOut = << >>
    /\ sortpc = "new"

\* GetTableNames on a schema: the names in the order the map yields them
GetTableNames(schema, names) ==
    /\ sortpc = "new"
    /\ names \in Orders(DOMAIN schema)
    /\ fks' = schema
    /\ tablesIn' = names
    /\ sortpc' = "named"
    /\ UNCHANGED tablesOut
    /\ UNCHANGED notSort

SortTables ==
    /\ sortpc = "named"
    /\ tablesOut' = sortTablesByDependencies(fks, tablesIn)
    /\ sortpc' = "sorted"
    /\ UNCHANGED <<fks, tablesIn>>
    /\ UNCHANGED notSort

SortNext ==
    \/ \E schema \in Schemas : \E names \in Orders(DOMAIN schema) : GetTableNames(schema, names)
    \/ SortTables

(***************************************************************************)
(* Loading a has_many relationship (findWithRelationships).                *)
(***************************************************************************)
MaxParents == 2
NumChildren == 2
MaxKey == 2

KeyValues == 0..MaxKey
ChildIds == 1..NumChildren

\* the parent tables: up to MaxParents rows with distinct source key values
ParentTables ==
    {p \in UNION {[1..n -> KeyValues] : n \in 0..MaxParents} : Injective(p)}

ChildTables == [ChildIds -> KeyValues]

\* a freshly scanned record: the relationship field is the nil slice
Record(id) == [ID |-> id, Posts |-> << >>]

isZeroValue(v) == v = 0

\* the query buildHasManySingleQuery builds: "" when the source value is
\* zero, otherwise SELECT * FROM target WHERE foreign_key = source value
NoQuery == [sql |-> "", arg |-> 0]

buildHasManySingleQuery(record) ==
    IF isZeroValue(record.ID) THEN NoQuery
    ELSE [sql |-> "SELECT * FROM posts WHERE user_id = $1", arg |-> record.ID]

\* the rows the child query selects, in table order
RECURSIVE SelectFrom(_, _, _)
SelectFrom(table, value, c) ==
    IF c > NumChildren THEN << >>
    ELSE IF table[c] = value THEN <<c>> \o SelectFrom(table, value, c + 1)
    ELSE SelectFrom(table, value, c + 1)

\* the has_many scan_to_model: the selected rows become the field
ScanToModel(table, query, record) ==
    [record EXCEPT !.Posts = SelectFrom(table, query.arg, 1)]

RECURSIVE loadRelationship(_, _, _)
loadRelationship(table, recs, i) ==
    IF i > Len(recs) THEN recs
    ELSE LET recordQuery == buildHasManySingleQuery(recs[i])
         IN IF recordQuery.sql # ""
            THEN loadRelationship(table,
                     [recs EXCEPT ![i] = ScanToModel(table, recordQuery, recs[i])], i + 1)
            ELSE loadRelationship(table, recs, i + 1)

RelStart ==
    /\ parentRows = << >>
    /\ childRows = << >>
    /\ records = << >>
    /\ relpc = "new"

\* the two tables as the database holds them when Find is called
SeedTables(parents, children) ==
    /\ relpc = "new"
    /\ parentRows' = parents
    /\ childRows' = children
    /\ relpc' = "seeded"
    /\ UNCHANGED records
    /\ UNCHANGED notRel

\* Find with one has_many include: the base rows, then the loader per record
findWithRelationships ==
    /\ relpc = "seeded"
    /\ LET found == [i \in 1..Len(parentRows) |-> Record(parentRows[i])]
       IN records' = IF Len(found) = 0 THEN found
                     ELSE loadRelationship(childRows, found, 1)
    /\ relpc' = "found"
    /\ UNCHANGED <<parentRows, childRows>>
    /\ UNCHANGED notRel

RelNext ==
    \/ \E parents \in ParentTables : \E children \in ChildTables : SeedTables(parents, children)
    \/ findWithRelationships

(***************************************************************************)
(* Repositories and their middleware managers: NewRepository gives a       *)
(* repository a manager of its own, Authorize builds a repository from     *)
(* its receiver.                                                           *)
(***************************************************************************)
MaxRepos == 3
MaxAdded == 2

ManagerIds == 1..MaxRepos

\* the middlewares added so far, over all managers
AddedSoFar == UNION {{mgrList[g][k] : k \in DOMAIN mgrList[g]} : g \in ManagerIds}

\* NewRepository, initialize: r.middlewareManager = newMiddlewareManager()
MgrStart ==
    /\ rmgr = <<[parent |-> 0, mgr |-> 1]>>
    /\ mgrList = [g \in ManagerIds |-> << >>]
    /\ lastOp = [repo |-> 0, ran |-> << >>]

\* NewRepository: a repository with a fresh manager
NewRepository ==
    /\ Len(rmgr) < MaxRepos
    /\ rmgr' = Append(rmgr, [parent |-> 0, mgr |-> Len(rmgr) + 1])
    /\ UNCHANGED <<mgrList, lastOp>>
    /\ UNCHANGED notMgr

\* r.Authorize(fn): &Repository{..., middlewareManager: r.middlewareManager}
AuthorizeRepository(r) ==
    /\ r \in DOMAIN rmgr
    /\ Len(rmgr) < MaxRepos
    /\ rmgr' = Append(rmgr, [parent |-> r, mgr |-> rmgr[r].mgr])
    /\ UNCHANGED <<mgrList, lastOp>>
    /\ UNCHANGED notMgr

\* r.AddMiddleware(m): appended to the list of r's manager
ManagerAddMiddleware(r) ==
    /\ r \in DOMAIN rmgr
    /\ Cardinality(AddedSoFar) < MaxAdded
    /\ LET m == [id |-> Cardinality(AddedSoFar) + 1, via |-> r]
       IN mgrList' = [mgrList EXCEPT ![rmgr[r].mgr] = Append(@, m)]
    /\ UNCHANGED <<rmgr, lastOp>>
    /\ UNCHANGED notMgr

\* an operation through r: the pipeline runs the list of r's manager
RepositoryOperation(r) ==
    /\ r \in DOMAIN rmgr
    /\ lastOp' = [repo |-> r, ran |-> mgrList[rmgr[r].mgr]]
    /\ lastOp' # lastOp
    /\ UNCHANGED <<rmgr, mgrList>>
    /\ UNCHANGED notMgr

MgrNext ==
    \/ NewRepository
    \/ \E r \in 1..MaxRepos : AuthorizeRepository(r)
    \/ \E r \in 1..MaxRepos : ManagerAddMiddleware(r)
    \/ \E r \in 1..MaxRepos : RepositoryOperation(r)

(***************************************************************************)
(* The specifications.                                                     *)
(***************************************************************************)
LockInit == LockStart /\ TxStart /\ logger = FALSE /\ MWStart /\ AuthStart /\ ApplyStart /\ up = << >> /\ history = {} /\ GenStart /\ QueryStart /\ ArrStart /\ JsonStart /\ SplitStart /\ SortStart /\ RelStart /\ MgrStart
LockSpec == LockInit /\ [][LockNext]_vars

TxInit == TxStart /\ LockStart /\ MWStart /\ AuthStart /\ ApplyStart /\ up = << >> /\ history = {} /\ GenStart /\ QueryStart /\ ArrStart /\ JsonStart /\ SplitStart /\ SortStart /\ RelStart /\ MgrStart
TxSpec == TxInit /\ [][TxNext]_vars

MWInit == MWStart /\ LockStart /\ TxStart /\ logger = FALSE /\ AuthStart /\ ApplyStart /\ up = << >> /\ history = {} /\ GenStart /\ QueryStart /\ ArrStart /\ JsonStart /\ SplitStart /\ SortStart /\ RelStart /\ MgrStart
MWSpec == MWInit /\ [][MWNext]_vars

AuthInit == AuthStart /\ LockStart /\ TxStart /\ logger = FALSE /\ MWStart /\ ApplyStart /\ up = << >> /\ history = {} /\ GenStart /\ QueryStart /\ ArrStart /\ JsonStart /\ SplitStart /\ SortStart /\ RelStart /\ MgrStart
AuthSpec == AuthInit /\ [][AuthNext]_vars

ApplyInit == ApplyStart /\ LockStart /\ TxStart /\ logger = FALSE /\ MWStart /\ AuthStart /\ GenStart /\ QueryStart /\ ArrStart /\ JsonStart /\ SplitStart /\ SortStart /\ RelStart /\ MgrStart
ApplySpec == ApplyInit /\ [][ApplyNext]_vars

GenInit == GenStart /\ LockStart /\ TxStart /\ logger = FALSE /\ MWStart /\ AuthStart /\ ApplyStart /\ up = << >> /\ history = {} /\ QueryStart /\ ArrStart /\ JsonStart /\ SplitStart /\ SortStart /\ RelStart /\ MgrStart
GenSpec == GenInit /\ [][GenNext]_vars

QueryInit == QueryStart /\ LockStart /\ TxStart /\ logger = FALSE /\ MWStart /\ AuthStart /\ ApplyStart /\ up = << >> /\ history = {} /\ GenStart /\ ArrStart /\ JsonStart /\ SplitStart /\ SortStart /\ RelStart /\ MgrStart
UpdateSpec == QueryInit /\ [][UpdateNext]_vars

ArrInit == ArrStart /\ LockStart /\ TxStart /\ logger = FALSE /\ MWStart /\ AuthStart /\ ApplyStart /\ up = << >> /\ history = {} /\ GenStart /\ QueryStart /\ JsonStart /\ SplitStart /\ SortStart /\ RelStart /\ MgrStart
ArrSpec == ArrInit /\ [][ArrNext]_vars

JsonInit == JsonStart /\ LockStart /\ TxStart /\ logger = FALSE /\ MWStart /\ AuthStart /\ ApplyStart /\ up = << >> /\ history = {} /\ GenStart /\ QueryStart /\ ArrStart /\ SplitStart /\ SortStart /\ RelStart /\ MgrStart
JsonSpec == JsonInit /\ [][JsonNext]_vars

SplitInit == SplitStart /\ LockStart /\ TxStart /\ logger = FALSE /\ MWStart /\ AuthStart /\ ApplyStart /\ up = << >> /\ history = {} /\ GenStart /\ QueryStart /\ ArrStart /\ JsonStart /\ SortStart /\ RelStart /\ MgrStart
SplitSpec == SplitInit /\ [][SplitNext]_vars

SortInit == SortStart /\ LockStart /\ TxStart /\ logger = FALSE /\ MWStart /\ AuthStart /\ ApplyStart /\ up = << >> /\ history = {} /\ GenStart /\ QueryStart /\ ArrStart /\ JsonStart /\ SplitStart /\ RelStart /\ MgrStart
SortSpec == SortInit /\ [][SortNext]_vars

RelInit == RelStart /\ SortStart /\ LockStart /\ TxStart /\ logger = FALSE /\ MWStart /\ AuthStart /\ ApplyStart /\ up = << >> /\ history = {} /\ GenStart /\ QueryStart /\ ArrStart /\ JsonStart /\ SplitStart /\ MgrStart
RelSpec == RelInit /\ [][RelNext]_vars

MgrInit == MgrStart /\ RelStart /\ SortStart /\ LockStart /\ TxStart /\ logger = FALSE /\ MWStart /\ AuthStart /\ ApplyStart /\ up = << >> /\ history = {} /\ GenStart /\ QueryStart /\ ArrStart /\ JsonStart /\ SplitStart
MgrSpec == MgrInit /\ [][MgrNext]_vars
QuerySpec == QueryInit /\ [][QueryNext]_vars
ChainSpec == QueryInit /\ [][ChainNext]_vars

(***************************************************************************)
(* The claims.                                                             *)
(***************************************************************************)
\* C1: of two concurrent MigratorImpl.AutoMigrate calls against the same
\* database, at most one is executing schema-changing DDL at any moment.
C1_AtMostOneDDL ==
    Cardinality({p \in Callers : lkind[p] = "migrator" /\ lpc[p] = "ddl"}) <= 1

\* C2: every AutoMigrate call that acquired the advisory lock has released it
\* by the time it exits (normally, with an error or by panic): once no call is
\* in flight, no session holds the lock.
C2_ReleasedOnExit ==
    (\A p \in Callers : lpc[p] \in {"idle", "done"}) => (\A c \in Conns : holds[c] = 0)


\* a call that has returned and had begun a transaction of its own
Finished(c) == calls[c].pc = "returned" /\ calls[c].own # 0

\* C3: every transaction begun by WithTransaction / WithTransactionOptions
\* moves Idle -> Active -> exactly one of Committed or RolledBack before the
\* call returns, and once it is Committed or RolledBack no later commit or
\* rollback attempt changes that outcome.
C3_TxStateMachine ==
    [][ /\ \A t \in TxIds :
              /\ txState[t] = "Idle" => txState'[t] \in {"Idle", "Active"}
              /\ txState[t] = "Active" => txState'[t] \in {"Active"} \cup TxTerminal
              /\ txState[t] \in TxTerminal => txState'[t] = txState[t]
        /\ \A c \in DOMAIN calls' :
              (calls'[c].pc = "returned" /\ calls'[c].own # 0)
                  => txState'[calls'[c].own] \in TxTerminal ]_vars

\* C3's case: a call has returned whose deferred Rollback met a transaction
\* that was already finished (its Commit had failed), and the outcome stands
C3_Witness ==
    \E e \in txLog :
        /\ e.op = "rollback"
        /\ e.was \in TxTerminal
        /\ Finished(e.call)
        /\ txState[e.tx] = e.was

\* C4: if the callback fn of a call that began a transaction returns an
\* error, the transaction is rolled back, commit is never attempted, and the
\* caller receives that same inner error (a nested call, which runs fn on the
\* enclosing transaction, hands the same error to its caller).
C4_ErrorRollsBack ==
    \A c \in DOMAIN calls :
        (calls[c].pc = "returned" /\ calls[c].fnRes.kind = "err") =>
            /\ calls[c].ret = calls[c].fnRes
            /\ calls[c].own # 0 =>
                  /\ txState[calls[c].own] = "RolledBack"
                  /\ ~\E e \in txLog : e.op = "commit" /\ e.tx = calls[c].own

\* C4's case: Storm.WithTransaction began a transaction, fn sent a statement
\* and returned an error, and the call has returned
C4_Witness ==
    \E c \in DOMAIN calls :
        /\ Finished(c)
        /\ calls[c].api = "WithTransaction"
        /\ calls[c].fnRes.kind = "err"
        /\ \E e \in txLog : e.op = "exec" /\ e.tx = calls[c].own

\* C5: if the callback fn panics, the transaction is rolled back (never
\* committed) and the same panic value propagates to the caller.
C5_PanicRollsBack ==
    \A c \in DOMAIN calls :
        (calls[c].pc = "returned" /\ calls[c].fnRes.kind = "panic") =>
            /\ calls[c].ret = calls[c].fnRes
            /\ calls[c].own # 0 =>
                  /\ txState[calls[c].own] = "RolledBack"
                  /\ ~\E e \in txLog : e.op = "commit" /\ e.tx = calls[c].own
            /\ (calls[c].own = 0 /\ stack = << >>) =>
                  /\ txState[calls[c].scope.tx] = "RolledBack"
                  /\ ~\E e \in txLog : e.op = "commit" /\ e.tx = calls[c].scope.tx

\* C5's case: WithTransactionOptions began a transaction, fn sent a statement
\* and panicked, and the panic has left the call
C5_Witness ==
    \E c \in DOMAIN calls :
        /\ Finished(c)
        /\ calls[c].api \in {"WithTransactionOptions", "TransactionManager"}
        /\ calls[c].fnRes.kind = "panic"
        /\ stack = << >>
        /\ \E e \in txLog : e.op = "exec" /\ e.tx = calls[c].own

\* C6: when WithTransaction is called on a scope whose executor is already a
\* transaction, fn runs directly on that same executor and the nested call
\* never begins, commits or rolls back a transaction of its own.
C6_NestedRunsFlat ==
    \A c \in DOMAIN calls :
        (calls[c].api \in StormAPIs /\ calls[c].recv.base = "tx") =>
            /\ calls[c].own = 0
            /\ calls[c].scope = calls[c].recv
            /\ \A e \in txLog :
                  e.call = c => (e.op = "exec" /\ e.tx = calls[c].recv.tx)

\* C6's case: a nested call on a logging Storm has run fn, which sent a
\* statement, and has returned
C6_Witness ==
    \E c \in DOMAIN calls :
        /\ calls[c].recv.base = "tx"
        /\ calls[c].recv.wrap
        /\ calls[c].pc = "returned"
        /\ calls[c].fnRes.kind = "nil"
        /\ \E e \in txLog : e.op = "exec" /\ e.call = c

\* what a run through n pre/post middlewares looks like when every one of
\* them calls next: pre 1..n, the driver call, post n..1
ExpectedOrder(n, res) ==
    [k \in 1..(2 * n + 1) |->
        IF k <= n THEN Event("pre", k, None)
        ELSE IF k = n + 1 THEN Event("driver", 0, res)
        ELSE Event("post", 2 * n + 2 - k, res)]

\* the statements the last operation sent to the driver inside its runs
SentInRuns == {last.runs[r].sent[1] : r \in {x \in DOMAIN last.runs : last.runs[x].sent # << >>}}

\* C7: for middlewares added in the order m1, m2, m3 (each with a pre-block,
\* a call of next and a post-block), on every operation that gets as far as
\* the driver or the pipeline the pre-blocks run in order 1,2,3, then the
\* driver call runs, then the post-blocks run in order 3,2,1.
C7_PrePostOrder ==
    ( /\ last.op # "none"
      /\ last.with # << >>
      /\ \A i \in DOMAIN last.with : last.with[i] = "log"
      /\ (last.runs # << >> \/ last.direct # << >>) )
    => /\ last.direct = << >>
       /\ last.runs # << >>
       /\ \A r \in DOMAIN last.runs :
             last.runs[r].events = ExpectedOrder(Len(last.with), last.runs[r].res)

\* C8: if a middleware returns an error without calling next, no later-added
\* middleware and no driver call is executed for that operation, every
\* earlier-added middleware's post-block still runs and observes that error,
\* and the operation returns it to the caller.
C8_AbortStops ==
    \A r \in DOMAIN last.runs :
        LET ev == last.runs[r].events
        IN \A p \in DOMAIN ev :
              ev[p].ev = "abort" =>
                  /\ \A q \in DOMAIN ev : ev[q].i <= ev[p].i /\ ev[q].ev # "driver"
                  /\ last.runs[r].sent = << >>
                  /\ last.direct = << >>
                  /\ \A j \in 1..(ev[p].i - 1) :
                        last.with[j] = "log" =>
                            \E q \in DOMAIN ev : q > p /\ ev[q] = Event("post", j, ev[p].saw)
                  /\ last.runs[r].res = ev[p].saw
                  /\ last.ret = ev[p].saw

\* C8's case: a Delete met a middleware that returned an error without
\* calling next, added after a pre/post middleware and before another one
C8_Witness ==
    /\ last.op = "Delete"
    /\ \E r \in DOMAIN last.runs : \E p \in DOMAIN last.runs[r].events :
          LET e == last.runs[r].events[p]
          IN /\ e.ev = "abort"
             /\ 1 < e.i
             /\ e.i < Len(last.with)
             /\ last.with[1] = "log"

\* C9: every terminal query operation (Find, First, Count, Exists, Delete,
\* Update, ExecuteRaw) enters the middleware pipeline before any statement
\* of that operation reaches the driver.
C9_EntersPipeline ==
    (last.direct # << >> \/ SentInRuns # {}) =>
        (last.runs # << >> /\ last.direct = << >>)

\* C10: with a middleware that, on a Delete operation, replaces the query
\* builder with an UPDATE builder and changes the operation kind to Update,
\* a delete call sends an UPDATE and no DELETE to the driver and returns
\* success (the driver accepting what it is sent).
C10_SoftDeleteSendsUpdate ==
    ( /\ last.op = "Delete"
      /\ last.d = "ok"
      /\ \E i \in DOMAIN last.with : last.with[i] = "softDelete"
      /\ \A i \in DOMAIN last.with : last.with[i] \in {"log", "softDelete"} )
    => /\ \E st \in SentInRuns : st.verb = "UPDATE"
       /\ \A st \in SentInRuns : st.verb # "DELETE"
       /\ last.direct = << >>
       /\ last.ret = Nil

\* C11: Authorize(fn) never changes the receiver's authorization list; the
\* returned repository's list is the receiver's list with fn appended (length
\* exactly +1), and repositories derived along different chains from the same
\* receiver never affect each other's lists.
C11_AuthorizeImmutable ==
    [][ /\ \A r \in DOMAIN repos : AuthList(r)' = AuthList(r)
        /\ \A r \in DOMAIN repos' :
              repos'[r].parent # 0 =>
                  /\ AuthList(r)' = Append(AuthList(repos'[r].parent), repos'[r].fn)
                  /\ Len(AuthList(r)') = Len(AuthList(repos'[r].parent)) + 1 ]_vars

\* C11's case: two repositories were derived from the same receiver, which
\* already had a function, and a third from one of them
C11_Witness ==
    \E r1, r2, r3 \in DOMAIN repos :
        /\ r1 # r2
        /\ repos[r1].parent = repos[r2].parent
        /\ repos[r1].parent # 0
        /\ repos[r3].parent = r1

\* C12: at Query(ctx) construction every authorization function of the
\* repository is invoked exactly once, in insertion order, each receiving the
\* Query returned by the previous one, and the Query handed to the caller is
\* the one returned by the last function (no function being nil).
C12_AuthOrder ==
    lastQuery.res = Nil =>
        LET made == lastQuery.made
            funcs == lastQuery.funcs
        IN /\ Len(made) = Len(funcs)
           /\ \A k \in DOMAIN made :
                 /\ made[k].fn = funcs[k]
                 /\ made[k].got = IF k = 1 THEN QueryObj(0, << >>) ELSE made[k - 1].gave
           /\ lastQuery.out = IF made = << >> THEN QueryObj(0, << >>)
                              ELSE made[Len(made)].gave

\* C12's case: Query ran on a repository with three functions, of which one
\* added a condition and a later one returned another Query object
C12_Witness ==
    /\ lastQuery.res = Nil
    /\ Len(lastQuery.made) = 3
    /\ \E j, k \in 1..3 :
          /\ j < k
          /\ lastQuery.made[j].fn.kind = "where"
          /\ lastQuery.made[k].fn.kind = "fresh"

\* the statements executeMigration sends: all but CREATE DATABASE, in order
ToExecute == SelectSeq([i \in DOMAIN up |-> i], LAMBDA i : up[i] # "createdb")

\* C13: Apply executes the migration's statements in order inside one
\* transaction; if any statement fails, the transaction is rolled back and
\* the error is returned, so that neither the effect of any earlier statement
\* of the call nor a history row written by it persists.
C13_ApplyAtomic ==
    \A p \in Appliers :
        /\ Len(asent[p]) <= Len(ToExecute)
        /\ \A k \in DOMAIN asent[p] : asent[p][k].idx = ToExecute[k]
        /\ asent[p] # << >> => atx[p] # "Idle"
        /\ (apc[p] = "done" /\ \E k \in DOMAIN asent[p] : ~asent[p][k].ok) =>
              /\ atx[p] = "RolledBack"
              /\ ares[p] = Err("failed to execute migration")
              /\ ~\E e \in effects : e.by = p
              /\ p \notin history

\* C13's case: a call whose second statement failed after the first one
\* succeeded has returned
C13_Witness ==
    \E p \in Appliers :
        /\ apc[p] = "done"
        /\ Len(asent[p]) = 2
        /\ asent[p][1].ok
        /\ ~asent[p][2].ok

\* C14: Apply of a migration whose name is already recorded in the history
\* table executes none of its statements, adds no history row, and returns
\* success (the history query itself succeeding).
C14_AppliedIsSkipped ==
    \A p \in Appliers :
        (apc[p] = "done" /\ asaw[p] = "applied") =>
            /\ asent[p] = << >>
            /\ atx[p] = "Idle"
            /\ p \notin history
            /\ ares[p] = Nil

\* C14's case: a call found the name recorded and has returned, for a
\* migration that has a statement to execute
C14_Witness ==
    \E p \in Appliers :
        /\ apc[p] = "done"
        /\ asaw[p] = "applied"
        /\ ToExecute # << >>

\* C15: if AutoMigrate fails to acquire the advisory lock within
\* lock_timeout, it returns a lock error, has executed no statement that
\* changes the database, and does not hold the lock afterwards.
C15_LockTimeoutUntouched ==
    /\ [](\A p \in Callers :
            lresult[p] = "lockerr" =>
                /\ lpc[p] \in {"done", "idle"}
                /\ ~ddlRan[p]
                /\ ~acquired[p])
    /\ [][\A p \in Callers :
            (lpc[p] = "waiting" /\ lresult'[p] = "lockerr") =>
                /\ lpc'[p] = "done"
                /\ holds' = holds
                /\ holds[lconn[p]] = 0]_vars

\* C15's case: a call gave up waiting for the lock while another call, which
\* holds it, is pushing DDL
C15_Witness ==
    \E p, q \in Callers :
        /\ lresult[p] = "lockerr"
        /\ lpc[p] = "done"
        /\ lpc[q] = "ddl"
        /\ acquired[q]


\* what a change drops, whatever its nesting: the kinds of its leaves
RECURSIVE LeafKindsOf(_)
LeafKindsOf(change) ==
    IF change.kind = "ModifyTable"
    THEN UNION {LeafKindsOf(change.changes[i]) : i \in 1..Len(change.changes)}
    ELSE {change.kind}

DropKinds == {"DropTable", "DropColumn", "DropIndex", "DropForeignKey"}

PlanIsDestructive ==
    \E i \in 1..Len(plan) : LeafKindsOf(plan[i]) \cap DropKinds # {}

\* C16: a dry run (AutoMigrateDryRun, or AutoMigrate with the dry-run option)
\* never sends a statement that writes to the target database.
C16_DryRunNeverWrites == gopts.DryRun => written = << >>

C16_Witness ==
    /\ gpc = "done" /\ gres = Nil
    /\ gopts.DryRun /\ gopts.PushToDB
    /\ plan # << >>

\* C17: when the plan holds a destructive change and allow_destructive is
\* false, the call ends with the destructive-change error and no statement of
\* the plan has reached the target database.
C17_DestructiveRefused ==
    (PlanIsDestructive /\ ~gopts.AllowDestructive) =>
        /\ written = << >>
        /\ gpc = "done" => gres = Err("storm: destructive change detected")

C17_Witness ==
    /\ gpc = "done"
    /\ ~gopts.AllowDestructive /\ gopts.PushToDB /\ ~gopts.DryRun
    /\ \E i \in 1..Len(plan) :
         /\ plan[i].kind = "ModifyTable"
         /\ LeafKindsOf(plan[i]) \cap DropKinds # {}
    /\ gres = Err("storm: destructive change detected")

\* C18: every temporary database created for a plan generation has been
\* dropped by the time the generation exits, whether it succeeds, fails at
\* any step or panics.
C18_TempDropped == gpc = "done" => ~temp

\* the placeholders of a statement, in the order they stand in it: each `$`
\* with the digits that follow it
RECURSIVE NumberAt(_, _, _)
NumberAt(sql, i, acc) ==
    IF i <= Len(sql) /\ \E d \in 1..10 : DigitChars[d] = sql[i]
    THEN NumberAt(sql, i + 1, 10 * acc + (CHOOSE d \in 1..10 : DigitChars[d] = sql[i]) - 1)
    ELSE acc

PlaceholdersOf(sql) ==
    LET at == SelectSeq([i \in 1..Len(sql) |-> i], LAMBDA i : sql[i] = "$")
    IN [k \in 1..Len(at) |-> NumberAt(sql, at[k] + 1, 0)]

\* C19: Query.Update renders one UPDATE whose placeholders are $1..$n without
\* repeats or gaps, the `?`s of the actions first and the WHERE parameters
\* after them, and the arguments are in that same order.
C19_PlaceholdersInOrder ==
    (qout.op = "update" /\ qout.err = "") =>
        /\ PlaceholdersOf(qout.sql) = [k \in 1..Len(qout.args) |-> k]
        /\ SubSeq(qout.args, Len(qout.args) - Len(WhereArgs(qwhere, 1)) + 1, Len(qout.args))
              = WhereArgs(qwhere, 1)
        /\ ~Contains(qout.sql, <<"?">>)

\* C20: for every builder state, Count returns the number of records Find
\* returns against the same data.
C20_CountIsFindLength ==
    /\ qout.op = "count" => qout.n = Len(Execute(FindBuilder))
    /\ qout.op = "find" => Len(qout.rows) = Len(Execute(CountBuilder))

\* C21: for every sequence of strings (nil, empty, with empty strings, with
\* quotes or commas), Scan of the result of Value succeeds and yields the
\* sequence that was stored.
C21_ArrayRoundTrip ==
    sapc = "scanned" => (~sa.err /\ sa.array = saOrig)

DelimiterAt(text, i) ==
    IF text[i] # "$" THEN << >>
    ELSE IF i + 1 <= Len(text) /\ text[i + 1] = "$" THEN <<"$", "$">>
    ELSE IF i + 2 <= Len(text) /\ text[i + 1] = "t" /\ text[i + 2] = "$" THEN <<"$", "t", "$">>
    ELSE << >>

RECURSIVE OpenQuote(_, _, _)
OpenQuote(text, i, open) ==
    IF i > Len(text) THEN open
    ELSE LET d == DelimiterAt(text, i)
         IN IF d = << >> THEN OpenQuote(text, i + 1, open)
            ELSE IF open = << >> THEN OpenQuote(text, i + Len(d), d)
            ELSE IF open = d THEN OpenQuote(text, i + Len(d), << >>)
            ELSE OpenQuote(text, i + 1, open)

\* C23: statement splitting never splits at a semicolon inside a dollar-quoted
\* string, `$$ ... $$` or `$tag$ ... $tag$`: when every dollar quote of the
\* script is closed, no statement ends with a dollar quote open; and the DO
\* block with a semicolon in its body is one statement.
C23_DollarQuotesKept ==
    (spc \in {"split", "executed"} /\ OpenQuote(script, 1, << >>) = << >>) =>
        /\ \A k \in 1..Len(stmts) : OpenQuote(stmts[k], 1, << >>) = << >>
        /\ script = Flatten(<<"word", "$$", "word", "word", ";", "word", "$$", ";">>)
              => Len(stmts) = 1

\* a statement that stands for CREATE DATABASE: those are its first words
TopLevelCreateDatabase(stmt) == HasPrefix(ToUpper(stmt), <<"C", "D">>)

\* C27: Apply executes every statement of the up script that is neither
\* comment-only nor a top-level CREATE DATABASE; no other statement is
\* skipped.
C27_OnlyThoseSkipped ==
    spc = "executed" =>
        sent = SelectSeq(stmts, LAMBDA stmt : ~TopLevelCreateDatabase(stmt))

\* the position of a table in the result (0 when it is not there)
PosOut(name) ==
    IF \E k \in 1..Len(tablesOut) : tablesOut[k] = name
    THEN CHOOSE k \in 1..Len(tablesOut) : tablesOut[k] = name
    ELSE 0

\* table t references table r
References(t, r) == \E k \in 1..Len(fks[t]) : fks[t][k] = r

\* the foreign-key graph has a cycle: some table reaches itself
RECURSIVE ReachableIn(_, _)
ReachableIn(from, n) ==
    IF n = 0 THEN from
    ELSE LET nearer == ReachableIn(from, n - 1)
         IN nearer \cup {r \in DOMAIN fks : \E t \in nearer : References(t, r)}

HasCycle ==
    \E t \in DOMAIN fks :
        t \in ReachableIn({r \in DOMAIN fks : References(t, r)}, Cardinality(DOMAIN fks))

\* C24: tables are emitted in dependency order: without a cycle in the
\* foreign-key graph every referenced table stands before each table that
\* references it; with a cycle the tables are in lexicographic order.
C24_DependencyOrder ==
    sortpc = "sorted" =>
        IF HasCycle
        THEN tablesOut = SortStrings(tablesIn)
        ELSE \A t, r \in DOMAIN fks :
                References(t, r) => (PosOut(r) # 0 /\ PosOut(t) # 0 /\ PosOut(r) < PosOut(t))

\* comments references posts, posts references users, the names came as
\* comments, posts, users and were turned around
C24_Witness ==
    /\ sortpc = "sorted"
    /\ tablesIn = <<"comments", "posts", "users">>
    /\ fks = [t \in TableNames |->
                CASE t = "comments" -> <<"posts">> [] t = "posts" -> <<"users">> [] OTHER -> << >>]
    /\ tablesOut = <<"users", "posts", "comments">>

C25_ChildrenAssigned ==
    relpc = "found" =>
        \A i \in 1..Len(records) :
            records[i].Posts = SelectFrom(childRows, records[i].ID, 1)

\* C26: once a builder error is recorded on a Query, a builder call leaves
\* the query state as it was, and a terminal operation returns that error.
C26_ErrorShortCircuits ==
    [][qerr # NoErr =>
          /\ <<qwhere, qjoins, qorder, qlimit, qoffset, qerr>>'
                 = <<qwhere, qjoins, qorder, qlimit, qoffset, qerr>>
          /\ qout' # qout => qout'.err = qerr]_vars

\* the statements of the migration whose effect a call has committed
CommittedBy(p) == {e.idx : e \in {f \in effects : f.by = p}}

\* C28: for two concurrent Apply calls of the same migration against the same
\* database, the statements take committed effect at most once (by one call,
\* and by none when an earlier run is recorded), at most one history row of
\* the name exists, and exactly one once a call has returned success; no call
\* leaves a partial effect: a call's statements are committed all together
\* with its history row or not at all, and a returned call has no open
\* transaction.
C28_ConcurrentApplyOnce ==
    /\ Cardinality({p \in Appliers : CommittedBy(p) # {}} \cup history) <= 1
    /\ \A p \in Appliers :
          /\ CommittedBy(p) = IF p \in history
                              THEN {ToExecute[k] : k \in DOMAIN ToExecute}
                              ELSE {}
          /\ apc[p] = "done" => atx[p] # "Active"
    /\ (\E p \in Appliers : apc[p] = "done" /\ ares[p] = Nil) => Cardinality(history) = 1

\* C28's case: both calls found the migration pending and executed its
\* statements in their transactions; one committed, the other was refused
\* its history row and has returned
C28_Witness ==
    \E p, q \in Appliers :
        /\ p # q
        /\ apc[p] = "done" /\ apc[q] = "done"
        /\ asaw[p] = "pending" /\ asaw[q] = "pending"
        /\ Len(asent[p]) = Len(ToExecute) /\ Len(asent[q]) = Len(ToExecute)
        /\ ToExecute # << >>
        /\ \A k \in DOMAIN asent[q] : asent[q][k].ok
        /\ ares[p] = Nil
        /\ ares[q] = Err("failed to record migration")
        /\ history = {p}

\* repository a is r or one of the repositories r was derived from
RECURSIVE DerivedFrom(_, _)
DerivedFrom(r, a) ==
    IF r = 0 THEN FALSE
    ELSE IF r = a THEN TRUE
    ELSE DerivedFrom(rmgr[r].parent, a)

\* C29: a middleware added to a repository that Authorize returned is not run
\* by operations issued through the receiver of that Authorize call or
\* through a repository derived along another chain: an operation runs only
\* middlewares added to its repository or to one it was derived from.
C29_ReceiverUnchanged ==
    lastOp.repo # 0 =>
        \A k \in DOMAIN lastOp.ran :
            rmgr[lastOp.ran[k].via].parent # 0 =>
                DerivedFrom(lastOp.repo, lastOp.ran[k].via)

====
